---- MODULE Spec2Model ----
(***************************************************************************)
(* Model of the ConTest test runner (pkg/runner/test_runner.go).           *)
(*                                                                         *)
(* One TestRunner.Run invocation drives every target through the ordered   *)
(* pipeline of steps.  The model has one process per target handler        *)
(* (handleTarget), the step runner/reader pair of every step (stepState),  *)
(* the monitor (the body of Run after the handlers are spawned), and the   *)
(* environment that pauses or cancels the outer context and resumes a      *)
(* paused run from the snapshot it returned.                               *)
(***************************************************************************)
EXTENDS Integers, Sequences, FiniteSets, TLC

\* ------------------------------------------------------------------ bounds
NumTargets == 2
NumSteps == 2
MaxRuns == 2

Targets == 1..NumTargets
Steps == 0..(NumSteps - 1)

\* --------------------------------------------------------------- constants
targetStepPhaseInvalid == 0
targetStepPhaseInit == 1
targetStepPhaseBegin == 2
targetStepPhaseRun == 3
targetStepPhaseObsolete == 4
targetStepPhaseEnd == 5
resumeStateStructVersion == 2

\* error values
NoErr == "nil"
ErrPaused == "Paused"
ErrCanceled == "Canceled"
ErrPaniced == "Paniced"
ErrLostTargets == "LostTargets"
ErrUnexpectedResult == "UnexpectedResult"
ErrInvalidPhase == "InvalidPhase"
ErrTargetFailed == "target failed"
ErrDuplicateResult == "DuplicateResult"
ErrNeverReturned == "NeverReturned"
ErrInvalidResumeState == "invalid resume state"
ErrIncompatibleResumeState == "incompatible resume state"

\* an empty notifier / no value
Null == "null"
\* a resumeState argument of length zero
EmptyBytes == [ok |-> FALSE]
\* a nil json.RawMessage, and the blob a step returns when it keeps the set S of targets
NullBlob == {}
StateBlob(S) == {S}
\* the JSON literal null, which json.Marshal writes for a nil json.RawMessage
JsonNull == {{0}}
BlobTargets(b) == IF b = NullBlob THEN {} ELSE CHOOSE S \in b : TRUE
\* a nil / empty results map
NoResults == [t \in {} |-> NoErr]

VARIABLES
    run,                \* number of the current Run invocation
    resumeState,        \* the resumeState argument of the current Run
    paused, cancelled,  \* notifications delivered to the outer context
    plan,               \* plan[t]: the step whose plugin fails target t (NumSteps: none)
    tgs,                \* targetStates: t -> [CurStep, CurPhase, Res]
    started, inputClosed, forceStopped, leftTargets, stepErr, stopped,
    inflight,           \* targets the step's plugin holds and has not answered
    awaiting,           \* targets the step's reader expects a result for
    resumeTargets,      \* resumeStateTargets handed to newStepState
    initResumeState, lastResumeState,
    pc, lastDecremented, targetErr,
    notifier,           \* per-injection result notifier of each target
    targetErrors, targetErrorsCount, targetErrorsClosed,
    stepsErrorsCh,
    monPc, resultErr, runErr, stepResumeStates,
    ret,                \* the triple Run returned
    answered,           \* targets the step's reader has handed a result for
    lostTargets,        \* the targets a step's LostTargets error lists
    injected,           \* times the step took the target from its input channel
    received,           \* values the monitor has taken from targetErrors
    closeCount,         \* number of times the step's input channel was closed
    neverReturned,      \* steps waitSteps gave up waiting for
    errSteps,           \* StepNames of the NeverReturned error of waitSteps
    startPc,            \* exec_agent: where start is
    child,              \* exec_agent: the process of cmd
    ProcessState,       \* exec_agent: cmd.ProcessState
    waiterPc,           \* exec_agent: where the goroutine of lines 83-89 is
    done, cmdErr, monErr, sigs,
    mon,                \* exec_agent: the monitor server
    startRet            \* exec_agent: what start returned

stepVars == <<started, inputClosed, forceStopped, leftTargets, stepErr, stopped,
              inflight, awaiting, resumeTargets, initResumeState, lastResumeState>>
drvVars == <<pc, lastDecremented, targetErr, notifier>>
chanVars == <<targetErrors, targetErrorsCount, targetErrorsClosed, stepsErrorsCh>>
ctxVars == <<paused, cancelled>>
monVars == <<monPc, resultErr, runErr, stepResumeStates>>
readerVars == <<answered, lostTargets, injected, received>>
shutdownVars == <<closeCount, neverReturned, errSteps>>
agentVars == <<startPc, child, ProcessState, waiterPc, done, cmdErr, monErr, sigs,
               mon, startRet>>
runnerVars == <<run, resumeState, paused, cancelled, plan, tgs, stepVars, drvVars,
                chanVars, monVars, ret, readerVars, shutdownVars>>
vars == <<runnerVars, agentVars>>

\* start has returned nothing yet.
NoStartRet == [path |-> "none", err |-> NoErr]

\* cmd.ProcessState before cmd.Wait has returned.
NilProcessState == [exited |-> FALSE, err |-> NoErr]

\* exec_agent's start is not running.
AgentIdle ==
    /\ startPc = "idle"
    /\ child = "none"
    /\ ProcessState = NilProcessState
    /\ waiterPc = "idle"
    /\ done = FALSE
    /\ cmdErr = <<>>
    /\ monErr = <<>>
    /\ sigs = <<>>
    /\ mon = "none"
    /\ startRet = NoStartRet

\* ------------------------------------------------------- resume state codec
\* json.Marshal of a targetState that leaves the phase out.
MarshalTargetStateNoPhase(ts) ==
    LET keys == (IF ts.CurStep # 0 THEN {"S"} ELSE {})
                \cup (IF ts.Res # NoErr THEN {"R"} ELSE {})
    IN [k \in keys |-> CASE k = "S" -> ts.CurStep
                         [] k = "R" -> ts.Res]

\* json.Marshal of a targetState: fields tagged omitempty are dropped when zero.
MarshalTargetState(ts) ==
    LET keys == (IF ts.CurStep # 0 THEN {"S"} ELSE {})
                \cup (IF ts.CurPhase # 0 THEN {"P"} ELSE {})
                \cup (IF ts.Res # NoErr THEN {"R"} ELSE {})
    IN [k \in keys |-> CASE k = "S" -> ts.CurStep
                         [] k = "P" -> ts.CurPhase
                         [] k = "R" -> ts.Res]

\* json.Unmarshal into a targetState: absent fields keep their zero value.
UnmarshalTargetState(js) ==
    [CurStep  |-> IF "S" \in DOMAIN js THEN js["S"] ELSE 0,
     CurPhase |-> IF "P" \in DOMAIN js THEN js["P"] ELSE targetStepPhaseInvalid,
     Res      |-> IF "R" \in DOMAIN js THEN js["R"] ELSE NoErr]

\* json.Marshal of resumeStateStruct; a nil RawMessage is written as null.
MarshalResumeState(targetStates, srs) ==
    [ok  |-> TRUE,
     V   |-> resumeStateStructVersion,
     T   |-> [t \in DOMAIN targetStates |-> MarshalTargetState(targetStates[t])],
     SRS |-> [k \in DOMAIN srs |-> IF srs[k] = NullBlob THEN JsonNull ELSE srs[k]]]

\* ------------------------------------------------------------ Run: set-up
\* The targetStates map after lines 105-137.
SeedTargetStates(rs) ==
    [t \in Targets |->
        IF rs.ok /\ t \in DOMAIN rs.T
        THEN UnmarshalTargetState(rs.T[t])
        ELSE [CurStep |-> 0, CurPhase |-> targetStepPhaseInit, Res |-> NoErr]]

\* srs handed to newStepState for step i.
StepInitResumeState(rs, i) ==
    IF rs.ok /\ i + 1 <= Len(rs.SRS) /\ rs.SRS[i + 1] # JsonNull
    THEN rs.SRS[i + 1] ELSE NullBlob

\* stepTargetsCount of step i.
StepTargetsCount(ts, i) == Cardinality({t \in Targets : ts[t].CurStep <= i})

\* No target handed to step i as already injected.
ResumeStateTargetsNone(ts, i) == {}

\* resumeStateTargets of step i.
ResumeStateTargets(ts, i) ==
    {t \in Targets : ts[t].CurStep = i /\ ts[t].CurPhase = targetStepPhaseRun}

NoRet == [done |-> FALSE, snapshot |-> EmptyBytes, results |-> NoResults, err |-> NoErr]

\* State of a Run invocation once the target handlers have been spawned
\* (lines 100-193), as a record of the values the variables take.
RunSetup(rs) ==
    LET ts == SeedTargetStates(rs) IN
    [tgs             |-> ts,
     leftTargets     |-> [i \in Steps |-> StepTargetsCount(ts, i)],
     resumeTargets   |-> [i \in Steps |-> ResumeStateTargets(ts, i)],
     initResumeState |-> [i \in Steps |-> StepInitResumeState(rs, i)],
     lastDecremented |-> [t \in Targets |-> ts[t].CurStep - 1],
     targetErrorsCount |-> Cardinality(DOMAIN ts)]

Init ==
    /\ AgentIdle
    /\ run = 1
    /\ resumeState = EmptyBytes
    /\ paused = FALSE
    /\ cancelled = FALSE
    /\ plan \in {f \in [Targets -> 0..NumSteps] :
                   \A t \in Targets : t + 1 \in Targets => f[t] <= f[t + 1]}
    /\ tgs = RunSetup(EmptyBytes).tgs
    /\ started = [i \in Steps |-> FALSE]
    /\ inputClosed = [i \in Steps |-> FALSE]
    /\ forceStopped = [i \in Steps |-> FALSE]
    /\ leftTargets = RunSetup(EmptyBytes).leftTargets
    /\ stepErr = [i \in Steps |-> NoErr]
    /\ stopped = [i \in Steps |-> FALSE]
    /\ inflight = [i \in Steps |-> {}]
    /\ awaiting = [i \in Steps |-> {}]
    /\ resumeTargets = RunSetup(EmptyBytes).resumeTargets
    /\ initResumeState = RunSetup(EmptyBytes).initResumeState
    /\ lastResumeState = [i \in Steps |-> NullBlob]
    /\ pc = [t \in Targets |-> "loop"]
    /\ lastDecremented = RunSetup(EmptyBytes).lastDecremented
    /\ targetErr = [t \in Targets |-> NoErr]
    /\ notifier = [t \in Targets |-> Null]
    /\ targetErrors = <<>>
    /\ targetErrorsCount = RunSetup(EmptyBytes).targetErrorsCount
    /\ targetErrorsClosed = FALSE
    /\ stepsErrorsCh = <<>>
    /\ monPc = "supervise"
    /\ resultErr = NoErr
    /\ runErr = NoErr
    /\ stepResumeStates = <<>>
    /\ ret = NoRet
    /\ answered = [i \in Steps |-> {}]
    /\ lostTargets = [i \in Steps |-> {}]
    /\ injected = [i \in Steps |-> [t \in Targets |-> 0]]
    /\ received = 0
    /\ closeCount = [i \in Steps |-> 0]
    /\ neverReturned = [i \in Steps |-> FALSE]
    /\ errSteps = {}

\* ------------------------------------------------ Run: resume state input
\* Bytes that are not the JSON of a resumeStateStruct.
MalformedBytes == [ok |-> TRUE, garbage |-> TRUE]

\* A snapshot with its version set to v, and with its "V" key renamed.
WithVersion(b, v) == [b EXCEPT !.V = v]
WithoutVersion(b) == [k \in DOMAIN b \ {"V"} |-> b[k]]

\* Snapshots of paused runs: both targets at the second step, one injected and
\* one not yet; and one target past the first step, the other not yet injected
\* into it.
SnapshotSecondStep ==
    MarshalResumeState(
        [t \in Targets |-> [CurStep |-> 1,
                            CurPhase |-> IF t = 1 THEN targetStepPhaseRun
                                         ELSE targetStepPhaseBegin,
                            Res |-> NoErr]],
        <<NullBlob, StateBlob({1})>>)

SnapshotFirstStep ==
    MarshalResumeState(
        [t \in Targets |-> IF t = 1
            THEN [CurStep |-> 1, CurPhase |-> targetStepPhaseInit, Res |-> NoErr]
            ELSE [CurStep |-> 0, CurPhase |-> targetStepPhaseBegin, Res |-> NoErr]],
        <<StateBlob({}), NullBlob>>)

\* The resumeState arguments Run is tried with.
ResumeInputs ==
    {EmptyBytes, MalformedBytes}
    \cup UNION {{b, WithVersion(b, 1), WithoutVersion(b)} :
                  b \in {SnapshotSecondStep, SnapshotFirstStep}}

\* rs.Version after json.Unmarshal: zero when the key is absent.
VersionOf(b) == IF "V" \in DOMAIN b THEN b.V ELSE 0

\* The resume state check without the comparison of the version.
ParseResumeStateNoVersionCheck(b) ==
    IF ~b.ok THEN NoErr
    ELSE IF "garbage" \in DOMAIN b THEN ErrInvalidResumeState
    ELSE NoErr

\* Lines 107-119: the error Run returns for the bytes b, if any.
ParseResumeState(b) ==
    IF ~b.ok THEN NoErr
    ELSE IF "garbage" \in DOMAIN b THEN ErrInvalidResumeState
    ELSE IF VersionOf(b) # resumeStateStructVersion THEN ErrIncompatibleResumeState
    ELSE NoErr

\* Snapshots of paused runs in which target 1 had failed at the first step
\* while target 2 was inside the second; and the same written by an older
\* runner, with target 1 in the phase that is no longer used.
SnapshotEnded ==
    MarshalResumeState(
        [t \in Targets |-> IF t = 1
            THEN [CurStep |-> 0, CurPhase |-> targetStepPhaseEnd,
                  Res |-> ErrTargetFailed]
            ELSE [CurStep |-> 1, CurPhase |-> targetStepPhaseRun, Res |-> NoErr]],
        <<NullBlob, StateBlob({2})>>)

SnapshotObsolete ==
    MarshalResumeState(
        [t \in Targets |-> IF t = 1
            THEN [CurStep |-> 0, CurPhase |-> targetStepPhaseObsolete,
                  Res |-> ErrTargetFailed]
            ELSE [CurStep |-> 1, CurPhase |-> targetStepPhaseRun, Res |-> NoErr]],
        <<NullBlob, StateBlob({2})>>)

\* The resumeState arguments Run accepts that it is tried with.
ValidInputs ==
    {EmptyBytes, SnapshotSecondStep, SnapshotFirstStep, SnapshotEnded,
     SnapshotObsolete}

\* What the run that wrote the snapshot rs had sent into the step inputs: a
\* target was taken by every step before its CurStep, and by that step once
\* its phase is run or end (396-403, 412-420).
InjectedBefore(rs) ==
    IF ParseResumeState(rs) # NoErr THEN [i \in Steps |-> [t \in Targets |-> 0]]
    ELSE LET ts == SeedTargetStates(rs) IN
         [i \in Steps |-> [t \in Targets |->
             IF \/ ts[t].CurStep > i
                \/ /\ ts[t].CurStep = i
                   /\ ts[t].CurPhase \in {targetStepPhaseRun, targetStepPhaseEnd}
             THEN 1 ELSE 0]]

\* A caller is about to call Run with resumeState bytes out of a set.
InitWith(inputs) ==
    /\ AgentIdle
    /\ run = 1
    /\ resumeState \in inputs
    /\ paused = FALSE
    /\ cancelled = FALSE
    /\ plan \in {f \in [Targets -> 0..NumSteps] :
                   \A t \in Targets : t + 1 \in Targets => f[t] <= f[t + 1]}
    /\ tgs = [t \in Targets |-> [CurStep |-> 0, CurPhase |-> targetStepPhaseInvalid,
                                  Res |-> NoErr]]
    /\ started = [i \in Steps |-> FALSE]
    /\ inputClosed = [i \in Steps |-> FALSE]
    /\ forceStopped = [i \in Steps |-> FALSE]
    /\ leftTargets = [i \in Steps |-> 0]
    /\ stepErr = [i \in Steps |-> NoErr]
    /\ stopped = [i \in Steps |-> FALSE]
    /\ inflight = [i \in Steps |-> {}]
    /\ awaiting = [i \in Steps |-> {}]
    /\ resumeTargets = [i \in Steps |-> {}]
    /\ initResumeState = [i \in Steps |-> NullBlob]
    /\ lastResumeState = [i \in Steps |-> NullBlob]
    /\ pc = [t \in Targets |-> "idle"]
    /\ lastDecremented = [t \in Targets |-> -1]
    /\ targetErr = [t \in Targets |-> NoErr]
    /\ notifier = [t \in Targets |-> Null]
    /\ targetErrors = <<>>
    /\ targetErrorsCount = 0
    /\ targetErrorsClosed = FALSE
    /\ stepsErrorsCh = <<>>
    /\ monPc = "start"
    /\ resultErr = NoErr
    /\ runErr = NoErr
    /\ stepResumeStates = <<>>
    /\ ret = NoRet
    /\ answered = [i \in Steps |-> {}]
    /\ lostTargets = [i \in Steps |-> {}]
    /\ injected = InjectedBefore(resumeState)
    /\ received = 0
    /\ closeCount = [i \in Steps |-> 0]
    /\ neverReturned = [i \in Steps |-> FALSE]
    /\ errSteps = {}

InitResumeInput == InitWith(ResumeInputs)

InitAnyRun == InitWith(ValidInputs)

\* Lines 100-193: Run parses the resume state and either returns its error or
\* builds the target states and the pipeline and spawns the handlers.
RunStart ==
    /\ monPc = "start"
    /\ IF ParseResumeState(resumeState) # NoErr
       THEN /\ ret' = [done |-> TRUE, snapshot |-> EmptyBytes, results |-> NoResults,
                       err |-> ParseResumeState(resumeState)]
            /\ monPc' = "returned"
            /\ UNCHANGED <<tgs, leftTargets, resumeTargets, initResumeState, pc,
                           lastDecremented, targetErrorsCount>>
       ELSE /\ tgs' = RunSetup(resumeState).tgs
            /\ leftTargets' = RunSetup(resumeState).leftTargets
            /\ resumeTargets' = RunSetup(resumeState).resumeTargets
            /\ initResumeState' = RunSetup(resumeState).initResumeState
            /\ lastDecremented' = RunSetup(resumeState).lastDecremented
            /\ targetErrorsCount' = RunSetup(resumeState).targetErrorsCount
            /\ pc' = [t \in Targets |-> "loop"]
            /\ monPc' = "supervise"
            /\ UNCHANGED ret
    /\ UNCHANGED <<agentVars, run, resumeState, ctxVars, plan, started, inputClosed, forceStopped,
                   stepErr, stopped, inflight, awaiting, lastResumeState, targetErr,
                   notifier, targetErrors, targetErrorsClosed, stepsErrorsCh, resultErr,
                   runErr, stepResumeStates, readerVars, shutdownVars>>

\* ------------------------------------------------------------- stepState
\* stepState.DecreaseLeftTargets for every step in the set S: one target less
\* will reach the step; the input channel is closed when none is left.
DecreasedLeftTargets(S) ==
    [i \in Steps |-> IF i \in S THEN leftTargets[i] - 1 ELSE leftTargets[i]]

ClosedAfterDecrease(S) ==
    [i \in Steps |-> inputClosed[i] \/ (i \in S /\ leftTargets[i] - 1 = 0)]

\* The steps of S that DecreaseLeftTargets takes to zero.
ReachZero(S) == {i \in S : leftTargets[i] - 1 = 0}

\* Closing the input channel of every step in S without looking whether it is open.
CloseInputUnguarded(S) ==
    [i \in Steps |-> IF i \in S THEN closeCount[i] + 1 ELSE closeCount[i]]

\* Closing the input channel of every step in S if it is open: closeCount
\* counts the close operations performed on each channel.
CloseInput(S) ==
    [i \in Steps |-> IF i \in S /\ ~inputClosed[i] THEN closeCount[i] + 1
                     ELSE closeCount[i]]

\* stepState.SetError: first write wins, and the first error is handed to onError,
\* which sends it on stepsErrorsCh (line 175-177).
SetError(i, e) ==
    IF stepErr[i] = NoErr /\ e # NoErr
    THEN /\ stepErr' = [stepErr EXCEPT ![i] = e]
         /\ stepsErrorsCh' = Append(stepsErrorsCh, e)
    ELSE UNCHANGED <<stepErr, stepsErrorsCh>>

\* ----------------------------------------------------------- handleTarget
\* The handler working on the step after the target's current one.
CurStepOfNext(t) ==
    IF tgs[t].CurStep + 1 < NumSteps THEN tgs[t].CurStep + 1 ELSE tgs[t].CurStep

\* The step the handler of target t works on: i of the loop (354, 366).
CurStepOf(t) == tgs[t].CurStep

\* stepState.Run (line 387): the first caller launches the step runner and
\* reader, which start from the step's resume state and resumed targets.
StartedAfterRun(i) == [started EXCEPT ![i] = TRUE]
InflightAfterRun(i) ==
    IF started[i] THEN inflight
    ELSE [inflight EXCEPT ![i] = BlobTargets(initResumeState[i])]
AwaitingAfterRun(i) ==
    IF started[i] THEN awaiting
    ELSE [awaiting EXCEPT ![i] = resumeTargets[i]]

\* The phase the switch of lines 367-384 leaves the target in.
PhaseAfterSwitch(ph) ==
    IF ph = targetStepPhaseInit THEN targetStepPhaseBegin ELSE ph

\* Top of an iteration without the early check of lines 356-364.
HandleTargetLoopNoEarlyCheck(t) ==
    /\ pc[t] = "loop"
    /\ LET i == CurStepOf(t)
           ph == tgs[t].CurPhase
       IN IF i >= NumSteps \/ ph = targetStepPhaseEnd
          THEN /\ pc' = [pc EXCEPT ![t] = "exit"]
               /\ UNCHANGED <<tgs, targetErr, started, inflight, awaiting>>
          ELSE IF ph \in {targetStepPhaseInit, targetStepPhaseBegin, targetStepPhaseRun}
          THEN /\ tgs' = [tgs EXCEPT ![t].CurPhase = PhaseAfterSwitch(ph)]
               /\ started' = StartedAfterRun(i)
               /\ inflight' = InflightAfterRun(i)
               /\ awaiting' = AwaitingAfterRun(i)
               /\ pc' = [pc EXCEPT ![t] = "inject"]
               /\ UNCHANGED targetErr
          ELSE /\ targetErr' = [targetErr EXCEPT ![t] = ErrInvalidPhase]
               /\ pc' = [pc EXCEPT ![t] = "exit"]
               /\ UNCHANGED <<tgs, started, inflight, awaiting>>
    /\ UNCHANGED <<agentVars, run, resumeState, ctxVars, plan, inputClosed, forceStopped,
                   leftTargets, stepErr, stopped, resumeTargets, initResumeState,
                   lastResumeState, lastDecremented, notifier, chanVars, monVars,
                   ret, readerVars, shutdownVars>>

\* Top of an iteration: loop condition, early pause/cancel check, phase switch
\* and ss.Run (354-387).
HandleTargetLoop(t) ==
    /\ pc[t] = "loop"
    /\ LET i == CurStepOf(t)
           ph == tgs[t].CurPhase
       IN IF i >= NumSteps \/ paused \/ cancelled \/ ph = targetStepPhaseEnd
          THEN /\ pc' = [pc EXCEPT ![t] = "exit"]
               /\ UNCHANGED <<tgs, targetErr, started, inflight, awaiting>>
          ELSE IF ph \in {targetStepPhaseInit, targetStepPhaseBegin, targetStepPhaseRun}
          THEN /\ tgs' = [tgs EXCEPT ![t].CurPhase = PhaseAfterSwitch(ph)]
               /\ started' = StartedAfterRun(i)
               /\ inflight' = InflightAfterRun(i)
               /\ awaiting' = AwaitingAfterRun(i)
               /\ pc' = [pc EXCEPT ![t] = "inject"]
               /\ UNCHANGED targetErr
          ELSE /\ targetErr' = [targetErr EXCEPT ![t] = ErrInvalidPhase]
               /\ pc' = [pc EXCEPT ![t] = "exit"]
               /\ UNCHANGED <<tgs, started, inflight, awaiting>>
    /\ UNCHANGED <<agentVars, run, resumeState, ctxVars, plan, inputClosed, forceStopped,
                   leftTargets, stepErr, stopped, resumeTargets, initResumeState,
                   lastResumeState, lastDecremented, notifier, chanVars, monVars,
                   ret, readerVars, shutdownVars>>

\* The step can take a target from its input channel.
CanReceive(i) ==
    started[i] /\ ~stopped[i] /\ ~inputClosed[i] /\ ~forceStopped[i]

\* The error InjectTarget returns when the send does not happen.
InjectErrors(i) ==
    (IF paused THEN {ErrPaused} ELSE {})
    \cup (IF cancelled THEN {ErrCanceled} ELSE {})
    \cup (IF stopped[i] \/ forceStopped[i]
          THEN {IF stepErr[i] # NoErr THEN stepErr[i] ELSE ErrCanceled} ELSE {})

\* The phase after a successful injection (396-403).
PhaseAfterInject(ph) ==
    IF ph = targetStepPhaseBegin THEN targetStepPhaseRun ELSE ph

\* ss.InjectTarget, the begin -> run transition, DecreaseLeftTargets (389-406),
\* and the return of lines 429-438 when the injection failed.
HandleTargetInject(t) ==
    /\ pc[t] = "inject"
    /\ LET i == CurStepOf(t) IN
       /\ \/ \* resumed in the running state: the step already knows the target
             /\ t \in resumeTargets[i]
             /\ pc' = [pc EXCEPT ![t] = "await"]
             /\ UNCHANGED <<inflight, awaiting, notifier, targetErr, tgs, injected>>
          \/ \* the step runner receives the target
             /\ t \notin resumeTargets[i]
             /\ CanReceive(i)
             /\ inflight' = [inflight EXCEPT ![i] = @ \cup {t}]
             /\ awaiting' = [awaiting EXCEPT ![i] = @ \cup {t}]
             /\ injected' = [injected EXCEPT ![i][t] = @ + 1]
             /\ notifier' = [notifier EXCEPT ![t] = Null]
             /\ tgs' = [tgs EXCEPT ![t].CurPhase = PhaseAfterInject(@)]
             /\ pc' = [pc EXCEPT ![t] = "await"]
             /\ UNCHANGED targetErr
          \/ \* the send is abandoned
             /\ t \notin resumeTargets[i]
             /\ \E e \in InjectErrors(i) : targetErr' = [targetErr EXCEPT ![t] = e]
             /\ pc' = [pc EXCEPT ![t] = "exit"]
             /\ UNCHANGED <<inflight, awaiting, notifier, tgs, injected>>
       /\ leftTargets' = DecreasedLeftTargets({i})
       /\ inputClosed' = ClosedAfterDecrease({i})
       /\ closeCount' = CloseInput(ReachZero({i}))
       /\ lastDecremented' = [lastDecremented EXCEPT ![t] = i]
    /\ UNCHANGED <<agentVars, run, resumeState, ctxVars, plan, started, forceStopped, stepErr,
                   stopped, resumeTargets, initResumeState, lastResumeState, chanVars,
                   monVars, ret, answered, lostTargets, received, neverReturned,
                   errSteps>>

\* case res := <-targetNotifier.NotifyCh() (412-420)
AwaitResult(t) ==
    /\ notifier[t] # Null
    /\ tgs' = [tgs EXCEPT ![t].Res = IF notifier[t] # NoErr THEN notifier[t] ELSE @,
                          ![t].CurPhase = targetStepPhaseEnd]
    /\ notifier' = [notifier EXCEPT ![t] = Null]
    /\ pc' = [pc EXCEPT ![t] = "next"]
    /\ UNCHANGED targetErr

\* The handler going on after its step stopped, whatever the step's error.
AwaitStoppedErrorIgnored(t) ==
    /\ stopped[CurStepOf(t)]
    /\ pc' = [pc EXCEPT ![t] = "next"]
    /\ UNCHANGED <<tgs, notifier, targetErr>>

\* case <-ss.NotifyStopped() (421-423), then the error check (429-438)
AwaitStopped(t) ==
    /\ stopped[CurStepOf(t)]
    /\ targetErr' = [targetErr EXCEPT ![t] = stepErr[CurStepOf(t)]]
    /\ pc' = [pc EXCEPT ![t] = IF stepErr[CurStepOf(t)] # NoErr THEN "exit" ELSE "next"]
    /\ UNCHANGED <<tgs, notifier>>

\* case <-ctx.Done() (424-426)
AwaitDone(t) ==
    /\ cancelled
    /\ targetErr' = [targetErr EXCEPT ![t] = ErrCanceled]
    /\ pc' = [pc EXCEPT ![t] = "exit"]
    /\ UNCHANGED <<tgs, notifier>>

\* The select that awaits the result (410-428): any ready case may be taken.
HandleTargetAwait(t) ==
    /\ pc[t] = "await"
    /\ (AwaitResult(t) \/ AwaitStopped(t) \/ AwaitDone(t))
    /\ UNCHANGED <<agentVars, run, resumeState, ctxVars, plan, stepVars, lastDecremented,
                   chanVars, monVars, ret, readerVars, shutdownVars>>

\* End of an iteration (440-450).
HandleTargetNext(t) ==
    /\ pc[t] = "next"
    /\ LET i == CurStepOf(t) IN
       IF tgs[t].Res # NoErr
       THEN /\ pc' = [pc EXCEPT ![t] = "exit"]
            /\ UNCHANGED tgs
       ELSE IF i + 1 < NumSteps
       THEN /\ tgs' = [tgs EXCEPT ![t].CurStep = i + 1,
                                  ![t].CurPhase = targetStepPhaseInit]
            /\ pc' = [pc EXCEPT ![t] = "loop"]
       ELSE /\ pc' = [pc EXCEPT ![t] = "exit"]
            /\ UNCHANGED tgs
    /\ UNCHANGED <<agentVars, run, resumeState, ctxVars, plan, stepVars, lastDecremented,
                   targetErr, notifier, chanVars, monVars, ret, readerVars,
                   shutdownVars>>

\* The steps the deferred function would decrement if its loop started at
\* lastDecremented.
DeferredStepsFromLast(t) == {i \in Steps : i >= lastDecremented[t]}

\* The deferred function decrementing the last step only.
DeferredStepsLastOnly(t) == {i \in Steps : i > lastDecremented[t] /\ i = NumSteps - 1}

\* The steps the deferred function decrements (345-347).
DeferredSteps(t) == {i \in Steps : i > lastDecremented[t]}

\* The deferred function (342-348) decrements every step not yet decremented;
\* the goroutine around handleTarget (183-192) reports, counts down and closes.
HandleTargetExit(t) ==
    /\ pc[t] = "exit"
    /\ LET S == DeferredSteps(t) IN
       /\ leftTargets' = DecreasedLeftTargets(S)
       /\ inputClosed' = ClosedAfterDecrease(S)
       /\ closeCount' = CloseInput(ReachZero(S))
    /\ lastDecremented' = [lastDecremented EXCEPT ![t] = NumSteps - 1]
    /\ targetErrors' = Append(targetErrors, targetErr[t])
    /\ targetErrorsCount' = targetErrorsCount - 1
    /\ targetErrorsClosed' = (targetErrorsClosed \/ targetErrorsCount - 1 = 0)
    /\ pc' = [pc EXCEPT ![t] = "done"]
    /\ UNCHANGED <<agentVars, run, resumeState, ctxVars, plan, tgs, started, forceStopped, stepErr,
                   stopped, inflight, awaiting, resumeTargets, initResumeState,
                   lastResumeState, targetErr, notifier, stepsErrorsCh, monVars,
                   ret, readerVars, neverReturned, errSteps>>

\* ------------------------------------------- step runner and step reader
\* The plugin answers a target it holds; the reader hands the result to the
\* notifier the target handler waits on.
StepResult(i, t) ==
    /\ started[i] /\ ~stopped[i]
    /\ t \in inflight[i]
    /\ inflight' = [inflight EXCEPT ![i] = @ \ {t}]
    /\ IF t \in awaiting[i]
       THEN /\ awaiting' = [awaiting EXCEPT ![i] = @ \ {t}]
            /\ answered' = [answered EXCEPT ![i] = @ \cup {t}]
            /\ notifier' = [notifier EXCEPT ![t] =
                               IF plan[t] = i THEN ErrTargetFailed ELSE NoErr]
            /\ UNCHANGED <<stepErr, stepsErrorsCh>>
       ELSE /\ SetError(i, ErrUnexpectedResult)
            /\ UNCHANGED <<awaiting, notifier, answered>>
    /\ UNCHANGED <<agentVars, run, resumeState, ctxVars, plan, tgs, started, inputClosed,
                   forceStopped, leftTargets, stopped, resumeTargets, initResumeState,
                   lastResumeState, pc, lastDecremented, targetErr, targetErrors,
                   targetErrorsCount, targetErrorsClosed, monVars, ret, lostTargets, injected, received,
                   shutdownVars>>

\* The list of the LostTargets error a returning step records: the targets
\* still awaited, if the step has no error yet.
LostAfterReturn(i) ==
    IF stepErr[i] = NoErr THEN [lostTargets EXCEPT ![i] = awaiting[i]]
    ELSE lostTargets

\* The plugin's Run returns nil after its input was closed and drained; targets
\* still awaited are lost.
StepReturn(i) ==
    /\ started[i] /\ ~stopped[i]
    /\ inputClosed[i] /\ inflight[i] = {}
    /\ SetError(i, IF awaiting[i] # {} THEN ErrLostTargets ELSE NoErr)
    /\ lostTargets' = LostAfterReturn(i)
    /\ stopped' = [stopped EXCEPT ![i] = TRUE]
    /\ lastResumeState' = [lastResumeState EXCEPT ![i] = NullBlob]
    /\ UNCHANGED <<agentVars, run, resumeState, ctxVars, plan, tgs, started, inputClosed,
                   forceStopped, leftTargets, inflight, awaiting, resumeTargets,
                   initResumeState, drvVars, targetErrors, targetErrorsCount,
                   targetErrorsClosed, monVars, ret, answered, injected, received,
                   shutdownVars>>

\* The plugin observes the pause, keeps the targets it holds in its resume
\* state and returns ErrPaused.
StepPause(i) ==
    /\ paused
    /\ started[i] /\ ~stopped[i]
    /\ SetError(i, ErrPaused)
    /\ stopped' = [stopped EXCEPT ![i] = TRUE]
    /\ lastResumeState' = [lastResumeState EXCEPT ![i] = StateBlob(inflight[i])]
    /\ UNCHANGED <<agentVars, run, resumeState, ctxVars, plan, tgs, started, inputClosed,
                   forceStopped, leftTargets, inflight, awaiting, resumeTargets,
                   initResumeState, drvVars, targetErrors, targetErrorsCount,
                   targetErrorsClosed, monVars, ret, readerVars, shutdownVars>>

\* The plugin observes the cancellation of its context and returns.
StepCancel(i) ==
    /\ cancelled \/ forceStopped[i]
    /\ started[i] /\ ~stopped[i]
    /\ SetError(i, ErrCanceled)
    /\ stopped' = [stopped EXCEPT ![i] = TRUE]
    /\ lastResumeState' = [lastResumeState EXCEPT ![i] = NullBlob]
    /\ UNCHANGED <<agentVars, run, resumeState, ctxVars, plan, tgs, started, inputClosed,
                   forceStopped, leftTargets, inflight, awaiting, resumeTargets,
                   initResumeState, drvVars, targetErrors, targetErrorsCount,
                   targetErrorsClosed, monVars, ret, readerVars, shutdownVars>>

\* The plugin panics.
StepPanic(i) ==
    /\ started[i] /\ ~stopped[i]
    /\ SetError(i, ErrPaniced)
    /\ stopped' = [stopped EXCEPT ![i] = TRUE]
    /\ lastResumeState' = [lastResumeState EXCEPT ![i] = NullBlob]
    /\ UNCHANGED <<agentVars, run, resumeState, ctxVars, plan, tgs, started, inputClosed,
                   forceStopped, leftTargets, inflight, awaiting, resumeTargets,
                   initResumeState, drvVars, targetErrors, targetErrorsCount,
                   targetErrorsClosed, monVars, ret, readerVars, shutdownVars>>

\* ------------------------------------------- steps that break the contract
\* The plugin emits a second output for a target the reader has already handed
\* a result for: the reader records DuplicateResult.
StepDuplicate(i, t) ==
    /\ started[i] /\ ~stopped[i]
    /\ t \in answered[i]
    /\ SetError(i, ErrDuplicateResult)
    /\ UNCHANGED <<agentVars, run, resumeState, ctxVars, plan, tgs, started, inputClosed,
                   forceStopped, leftTargets, stopped, inflight, awaiting,
                   resumeTargets, initResumeState, lastResumeState, drvVars,
                   targetErrors, targetErrorsCount, targetErrorsClosed, monVars, ret,
                   readerVars, shutdownVars>>

\* The plugin emits an output for a target that never entered the step: the
\* reader records UnexpectedResult.
StepUnexpected(i, t) ==
    /\ started[i] /\ ~stopped[i]
    /\ t \notin inflight[i] \cup awaiting[i] \cup answered[i]
    /\ SetError(i, ErrUnexpectedResult)
    /\ UNCHANGED <<agentVars, run, resumeState, ctxVars, plan, tgs, started, inputClosed,
                   forceStopped, leftTargets, stopped, inflight, awaiting,
                   resumeTargets, initResumeState, lastResumeState, drvVars,
                   targetErrors, targetErrorsCount, targetErrorsClosed, monVars, ret,
                   readerVars, shutdownVars>>

\* The plugin's Run returns while targets injected into it have no result: the
\* step records LostTargets listing them.
StepLose(i) ==
    /\ started[i] /\ ~stopped[i]
    /\ awaiting[i] # {}
    /\ SetError(i, ErrLostTargets)
    /\ lostTargets' = LostAfterReturn(i)
    /\ stopped' = [stopped EXCEPT ![i] = TRUE]
    /\ lastResumeState' = [lastResumeState EXCEPT ![i] = NullBlob]
    /\ UNCHANGED <<agentVars, run, resumeState, ctxVars, plan, tgs, started, inputClosed,
                   forceStopped, leftTargets, inflight, awaiting, resumeTargets,
                   initResumeState, drvVars, targetErrors, targetErrorsCount,
                   targetErrorsClosed, monVars, ret, answered, injected, received,
                   shutdownVars>>

\* ---------------------------------------------------------- Run: monitor
\* The monitor recording the first error without stopping the steps.
MonitorRecordNoForceStop(e) ==
    IF e # NoErr /\ e # ErrPaused /\ resultErr = NoErr
    THEN /\ resultErr' = e
         /\ UNCHANGED <<forceStopped, inputClosed, closeCount>>
    ELSE UNCHANGED <<resultErr, forceStopped, inputClosed, closeCount>>

\* The monitor keeping the last error that is not a pause instead of the first.
MonitorRecordLast(e) ==
    IF e # NoErr /\ e # ErrPaused
    THEN /\ resultErr' = e
         /\ forceStopped' = [i \in Steps |-> TRUE]
         /\ inputClosed' = [i \in Steps |-> TRUE]
         /\ closeCount' = CloseInput(Steps)
    ELSE UNCHANGED <<resultErr, forceStopped, inputClosed, closeCount>>

\* Lines 209-216: the first error that is not a pause becomes the result and
\* every step is force-stopped (context cancelled, input closed).
MonitorRecord(e) ==
    IF e # NoErr /\ e # ErrPaused /\ resultErr = NoErr
    THEN /\ resultErr' = e
         /\ forceStopped' = [i \in Steps |-> TRUE]
         /\ inputClosed' = [i \in Steps |-> TRUE]
         /\ closeCount' = CloseInput(Steps)
    ELSE UNCHANGED <<resultErr, forceStopped, inputClosed, closeCount>>

\* The monitor leaving its loop as soon as targetErrors has nothing to read,
\* whether or not the channel was closed.
MonitorTargetErrorNoClose ==
    /\ monPc = "supervise"
    /\ \/ /\ targetErrors # <<>>
          /\ targetErrors' = Tail(targetErrors)
          /\ received' = received + 1
          /\ MonitorRecord(Head(targetErrors))
          /\ UNCHANGED monPc
       \/ /\ targetErrors = <<>>
          /\ monPc' = "wait"
          /\ UNCHANGED <<targetErrors, received, resultErr, forceStopped,
                         inputClosed, closeCount>>
    /\ UNCHANGED <<agentVars, run, resumeState, ctxVars, plan, tgs, started, leftTargets, stepErr,
                   stopped, inflight, awaiting, resumeTargets, initResumeState,
                   lastResumeState, drvVars, targetErrorsCount, targetErrorsClosed,
                   stepsErrorsCh, runErr, stepResumeStates, ret, answered,
                   lostTargets, injected, neverReturned, errSteps>>

\* case runErr, ok = <-targetErrors (203-206)
MonitorTargetError ==
    /\ monPc = "supervise"
    /\ \/ /\ targetErrors # <<>>
          /\ targetErrors' = Tail(targetErrors)
          /\ received' = received + 1
          /\ MonitorRecord(Head(targetErrors))
          /\ UNCHANGED monPc
       \/ /\ targetErrors = <<>> /\ targetErrorsClosed
          /\ monPc' = "wait"
          /\ UNCHANGED <<targetErrors, received, resultErr, forceStopped,
                         inputClosed, closeCount>>
    /\ UNCHANGED <<agentVars, run, resumeState, ctxVars, plan, tgs, started, leftTargets, stepErr,
                   stopped, inflight, awaiting, resumeTargets, initResumeState,
                   lastResumeState, drvVars, targetErrorsCount, targetErrorsClosed,
                   stepsErrorsCh, runErr, stepResumeStates, ret, answered,
                   lostTargets, injected, neverReturned, errSteps>>

\* case runErr = <-stepsErrorsCh (207)
MonitorStepError ==
    /\ monPc = "supervise"
    /\ stepsErrorsCh # <<>>
    /\ stepsErrorsCh' = Tail(stepsErrorsCh)
    /\ MonitorRecord(Head(stepsErrorsCh))
    /\ UNCHANGED <<agentVars, run, resumeState, ctxVars, plan, tgs, started, leftTargets, stepErr,
                   stopped, inflight, awaiting, resumeTargets, initResumeState,
                   lastResumeState, drvVars, targetErrors, targetErrorsCount,
                   targetErrorsClosed, monPc, runErr, stepResumeStates, ret,
                   readerVars, neverReturned, errSteps>>

\* waitSteps collecting nothing for the steps that were not started.
WaitResumeStatesStartedOnly ==
    [k \in 1..NumSteps |-> IF started[k - 1] THEN lastResumeState[k - 1]
                           ELSE NullBlob]

\* waitSteps (306-336): the resume state of every step, and the first error of
\* a started step that is neither nil nor a pause.
WaitResumeStates ==
    [k \in 1..NumSteps |-> IF started[k - 1] THEN lastResumeState[k - 1]
                           ELSE initResumeState[k - 1]]

\* waitSteps dropping the errors the steps returned.
WaitResultErrDropped == NoErr

WaitResultErr ==
    LET bad == {i \in Steps : started[i] /\ stepErr[i] \notin {NoErr, ErrPaused}}
    IN IF bad = {} THEN NoErr
       ELSE stepErr[CHOOSE i \in bad : \A j \in bad : i <= j]

\* The started steps that have not stopped: WaitResults gives up on them when
\* the shutdown context is done (319-325).
TimedOutSteps == {i \in Steps : started[i] /\ ~stopped[i]}

\* resumeStates when the steps of T ran into the shutdown timeout: their
\* result is empty.
WaitResumeStatesExcept(T) ==
    [k \in 1..NumSteps |-> IF ~started[k - 1] THEN initResumeState[k - 1]
                           ELSE IF (k - 1) \in T THEN NullBlob
                           ELSE lastResumeState[k - 1]]

\* resultErr of waitSteps with the steps that never returned forgotten.
WaitResultErrNoTimeout(T) ==
    LET bad == {i \in Steps \ T : started[i] /\ stepErr[i] \notin {NoErr, ErrPaused}}
    IN IF bad # {} THEN stepErr[CHOOSE i \in bad : \A j \in bad : i <= j]
       ELSE NoErr

\* resultErr of waitSteps when the steps of T ran into the shutdown timeout
\* (326-334): the first error of a step that returned in time, else
\* NeverReturned.
WaitResultErrExcept(T) ==
    LET bad == {i \in Steps \ T : started[i] /\ stepErr[i] \notin {NoErr, ErrPaused}}
    IN IF bad # {} THEN stepErr[CHOOSE i \in bad : \A j \in bad : i <= j]
       ELSE IF T # {} THEN ErrNeverReturned
       ELSE NoErr

\* The errors ss.SetError hands to onError for the steps of a set, in step order.
RECURSIVE NeverReturnedErrors(_)
NeverReturnedErrors(T) ==
    IF T = {} THEN <<>>
    ELSE LET i == CHOOSE x \in T : \A y \in T : x <= y
         IN (IF stepErr[i] = NoErr THEN <<ErrNeverReturned>> ELSE <<>>)
            \o NeverReturnedErrors(T \ {i})

\* Lines 220-224 when some started step does not return within the shutdown
\* timeout: waitSteps labels it NeverReturned and force-stops it (319-325).
WaitStepsTimeout ==
    /\ monPc = "wait"
    /\ TimedOutSteps # {}
    /\ LET T == TimedOutSteps IN
       /\ neverReturned' = [i \in Steps |-> neverReturned[i] \/ i \in T]
       /\ stepErr' = [i \in Steps |-> IF i \in T /\ stepErr[i] = NoErr
                                       THEN ErrNeverReturned ELSE stepErr[i]]
       /\ stepsErrorsCh' = stepsErrorsCh \o NeverReturnedErrors(T)
       /\ forceStopped' = [i \in Steps |-> forceStopped[i] \/ i \in T]
       /\ inputClosed' = [i \in Steps |-> inputClosed[i] \/ i \in T]
       /\ closeCount' = CloseInput(T)
       /\ stepResumeStates' = WaitResumeStatesExcept(T)
       /\ runErr' = IF resultErr # NoErr THEN resultErr ELSE WaitResultErrExcept(T)
       /\ errSteps' = IF resultErr = NoErr /\ WaitResultErrExcept(T) = ErrNeverReturned
                      THEN T ELSE {}
    /\ monPc' = "examine"
    /\ UNCHANGED <<agentVars, run, resumeState, ctxVars, plan, tgs, started, leftTargets, stopped,
                   inflight, awaiting, resumeTargets, initResumeState, lastResumeState,
                   drvVars, targetErrors, targetErrorsCount, targetErrorsClosed,
                   resultErr, ret, readerVars>>

\* waitSteps going on without waiting for the started steps.
WaitStepsNoWait ==
    /\ monPc = "wait"
    /\ stepResumeStates' = WaitResumeStates
    /\ runErr' = IF resultErr # NoErr THEN resultErr ELSE WaitResultErr
    /\ monPc' = "examine"
    /\ UNCHANGED <<agentVars, run, resumeState, ctxVars, plan, tgs, stepVars, drvVars, chanVars,
                   resultErr, ret, readerVars, shutdownVars>>

\* Run keeping only the monitor's error: the error of waitSteps is not taken
\* (221-223 left out).
WaitStepsErrIgnored ==
    /\ monPc = "wait"
    /\ \A i \in Steps : started[i] => stopped[i]
    /\ stepResumeStates' = WaitResumeStates
    /\ runErr' = resultErr
    /\ monPc' = "examine"
    /\ UNCHANGED <<agentVars, run, resumeState, ctxVars, plan, tgs, stepVars, drvVars, chanVars,
                   resultErr, ret, readerVars, shutdownVars>>

\* Lines 220-224: wait for the started steps, keep the first error.
WaitSteps ==
    /\ monPc = "wait"
    /\ \A i \in Steps : started[i] => stopped[i]
    /\ stepResumeStates' = WaitResumeStates
    /\ runErr' = IF resultErr # NoErr THEN resultErr ELSE WaitResultErr
    /\ monPc' = "examine"
    /\ UNCHANGED <<agentVars, run, resumeState, ctxVars, plan, tgs, stepVars, drvVars, chanVars,
                   resultErr, ret, readerVars, shutdownVars>>

\* resumeOk without the check of the targets in phase run (249-254 left out).
ResumeOkNoInFlightCheck(err) ==
    /\ err = NoErr
    /\ \A t \in DOMAIN tgs :
          LET se == stepErr[tgs[t].CurStep] IN se = NoErr \/ se = ErrPaused

\* resumeOk after the loop of lines 241-261, given the run error.
ResumeOk(err) ==
    /\ err = NoErr
    /\ \A t \in DOMAIN tgs :
          LET se == stepErr[tgs[t].CurStep] IN
          /\ tgs[t].CurPhase = targetStepPhaseRun => se = ErrPaused
          /\ se = NoErr \/ se = ErrPaused

\* targetsResults with the last step taken to be len(tr.steps).
TargetsResultsOffByOne ==
    [t \in {u \in DOMAIN tgs : \/ tgs[u].Res # NoErr
                            \/ /\ tgs[u].CurStep = NumSteps
                               /\ tgs[u].CurPhase = targetStepPhaseEnd}
        |-> tgs[t].Res]

\* targetsResults (295-302).
TargetsResults ==
    [t \in {u \in DOMAIN tgs : \/ tgs[u].Res # NoErr
                            \/ /\ tgs[u].CurStep = NumSteps - 1
                               /\ tgs[u].CurPhase = targetStepPhaseEnd}
        |-> tgs[t].Res]

\* The run error with the cancellation check left out.
FinalRunErrNoCancelCheck == runErr

\* The run error after the cancellation check of lines 230-235.
FinalRunErr == IF cancelled THEN ErrCanceled ELSE runErr

\* Lines 226-303: examine the final state and return.
RunReturn ==
    /\ monPc = "examine"
    /\ ret' = IF FinalRunErr # NoErr
              THEN [done |-> TRUE, snapshot |-> EmptyBytes, results |-> NoResults,
                    err |-> FinalRunErr]
              ELSE IF paused /\ ResumeOk(FinalRunErr)
              THEN [done |-> TRUE,
                    snapshot |-> MarshalResumeState(tgs, stepResumeStates),
                    results |-> TargetsResults, err |-> ErrPaused]
              ELSE [done |-> TRUE, snapshot |-> resumeState,
                    results |-> TargetsResults, err |-> NoErr]
    /\ monPc' = "returned"
    /\ UNCHANGED <<agentVars, run, resumeState, ctxVars, plan, tgs, stepVars, drvVars, chanVars,
                   resultErr, runErr, stepResumeStates, readerVars, shutdownVars>>

\* ---------------------------------------------------------- environment
\* The caller notifies the outer context with ErrPaused.
Pause ==
    /\ ~ret.done /\ ~paused
    /\ paused' = TRUE
    /\ UNCHANGED <<agentVars, run, resumeState, cancelled, plan, tgs, stepVars, drvVars, chanVars,
                   monVars, ret, readerVars, shutdownVars>>

\* The caller cancels the outer context.
Cancel ==
    /\ ~ret.done /\ ~cancelled
    /\ cancelled' = TRUE
    /\ UNCHANGED <<agentVars, run, resumeState, paused, plan, tgs, stepVars, drvVars, chanVars,
                   monVars, ret, readerVars, shutdownVars>>

\* The caller starts a new runner with the snapshot a paused run returned, the
\* same targets and the same steps (lines 100-193 of the new Run).
Resume ==
    /\ ret.done /\ ret.err = ErrPaused /\ ret.snapshot.ok
    /\ run < MaxRuns
    /\ run' = run + 1
    /\ resumeState' = ret.snapshot
    /\ paused' = FALSE
    /\ cancelled' = FALSE
    /\ tgs' = RunSetup(ret.snapshot).tgs
    /\ started' = [i \in Steps |-> FALSE]
    /\ inputClosed' = [i \in Steps |-> FALSE]
    /\ forceStopped' = [i \in Steps |-> FALSE]
    /\ leftTargets' = RunSetup(ret.snapshot).leftTargets
    /\ stepErr' = [i \in Steps |-> NoErr]
    /\ stopped' = [i \in Steps |-> FALSE]
    /\ inflight' = [i \in Steps |-> {}]
    /\ awaiting' = [i \in Steps |-> {}]
    /\ resumeTargets' = RunSetup(ret.snapshot).resumeTargets
    /\ initResumeState' = RunSetup(ret.snapshot).initResumeState
    /\ lastResumeState' = [i \in Steps |-> NullBlob]
    /\ pc' = [t \in Targets |-> "loop"]
    /\ lastDecremented' = RunSetup(ret.snapshot).lastDecremented
    /\ targetErr' = [t \in Targets |-> NoErr]
    /\ notifier' = [t \in Targets |-> Null]
    /\ targetErrors' = <<>>
    /\ targetErrorsCount' = RunSetup(ret.snapshot).targetErrorsCount
    /\ targetErrorsClosed' = FALSE
    /\ stepsErrorsCh' = <<>>
    /\ monPc' = "supervise"
    /\ resultErr' = NoErr
    /\ runErr' = NoErr
    /\ stepResumeStates' = <<>>
    /\ ret' = NoRet
    /\ answered' = [i \in Steps |-> {}]
    /\ lostTargets' = [i \in Steps |-> {}]
    /\ closeCount' = [i \in Steps |-> 0]
    /\ neverReturned' = [i \in Steps |-> FALSE]
    /\ errSteps' = {}
    /\ received' = 0
    /\ UNCHANGED <<agentVars, plan, injected>>

\* The target handlers.
Handlers ==
    \/ \E t \in Targets : HandleTargetLoop(t)
    \/ \E t \in Targets : HandleTargetInject(t)
    \/ \E t \in Targets : HandleTargetAwait(t)
    \/ \E t \in Targets : HandleTargetNext(t)
    \/ \E t \in Targets : HandleTargetExit(t)

\* Steps that honour the plugin contract.
GoodSteps ==
    \/ \E i \in Steps, t \in Targets : StepResult(i, t)
    \/ \E i \in Steps : StepReturn(i)
    \/ \E i \in Steps : StepPause(i)
    \/ \E i \in Steps : StepCancel(i)

\* The main goroutine of Run.
Monitor ==
    \/ MonitorTargetError
    \/ MonitorStepError
    \/ WaitSteps
    \/ RunReturn

\* Runs of contract-honouring steps that the caller may pause and resume.
Next ==
    \/ Handlers
    \/ GoodSteps
    \/ Monitor
    \/ Pause
    \/ Resume

Spec == Init /\ [][Next]_vars

\* One run whose steps may panic and whose caller may pause and cancel.
NextFaults ==
    \/ Handlers
    \/ GoodSteps
    \/ \E i \in Steps : StepPanic(i)
    \/ Monitor
    \/ Pause
    \/ Cancel

SpecFaults == Init /\ [][NextFaults]_vars

\* One run, started with any of the resume inputs, whose steps may panic.
NextResumeInput ==
    \/ RunStart
    \/ Handlers
    \/ \E i \in Steps, t \in Targets : StepResult(i, t)
    \/ \E i \in Steps : StepReturn(i)
    \/ \E i \in Steps : StepCancel(i)
    \/ \E i \in Steps : StepPanic(i)
    \/ Monitor

SpecResumeInput == InitResumeInput /\ [][NextResumeInput]_vars

\* One run, started with any of the accepted inputs, whose steps may panic
\* and whose caller may pause and cancel.
NextAnyRun ==
    \/ RunStart
    \/ Handlers
    \/ GoodSteps
    \/ \E i \in Steps : StepPanic(i)
    \/ Monitor
    \/ Pause
    \/ Cancel

SpecAnyRun == InitAnyRun /\ [][NextAnyRun]_vars

\* One run whose steps may break the worker contract or hang, and whose caller
\* may cancel.
NextMisbehave ==
    \/ Handlers
    \/ \E i \in Steps, t \in Targets : StepResult(i, t)
    \/ \E i \in Steps : StepReturn(i)
    \/ \E i \in Steps : StepCancel(i)
    \/ \E i \in Steps, t \in Targets : StepDuplicate(i, t)
    \/ \E i \in Steps, t \in Targets : StepUnexpected(i, t)
    \/ \E i \in Steps : StepLose(i)
    \/ Monitor
    \/ WaitStepsTimeout
    \/ Cancel

SpecMisbehave == Init /\ [][NextMisbehave]_vars

\* ------------------------------------------------- Run: an empty pipeline
\* tr.steps when t.TestStepsBundles is empty: the loop of lines 154-178 adds
\* nothing, so every per-step array has no element.
NoSteps == [i \in {} |-> 0]

\* len(tr.steps)
LenSteps == Cardinality(DOMAIN stepErr)

\* Run was called without a resume state, with the targets and a test that has
\* no steps, and has spawned the target handlers (lines 100-193).
InitEmptyPipeline ==
    /\ AgentIdle
    /\ run = 1
    /\ resumeState = EmptyBytes
    /\ paused = FALSE
    /\ cancelled = FALSE
    /\ plan = [t \in Targets |-> NumSteps]
    /\ tgs = SeedTargetStates(EmptyBytes)
    /\ started = NoSteps
    /\ inputClosed = NoSteps
    /\ forceStopped = NoSteps
    /\ leftTargets = NoSteps
    /\ stepErr = NoSteps
    /\ stopped = NoSteps
    /\ inflight = NoSteps
    /\ awaiting = NoSteps
    /\ resumeTargets = NoSteps
    /\ initResumeState = NoSteps
    /\ lastResumeState = NoSteps
    /\ pc = [t \in Targets |-> "loop"]
    /\ lastDecremented = [t \in Targets |-> tgs[t].CurStep - 1]
    /\ targetErr = [t \in Targets |-> NoErr]
    /\ notifier = [t \in Targets |-> Null]
    /\ targetErrors = <<>>
    /\ targetErrorsCount = NumTargets
    /\ targetErrorsClosed = FALSE
    /\ stepsErrorsCh = <<>>
    /\ monPc = "supervise"
    /\ resultErr = NoErr
    /\ runErr = NoErr
    /\ stepResumeStates = <<>>
    /\ ret = NoRet
    /\ answered = NoSteps
    /\ lostTargets = NoSteps
    /\ injected = NoSteps
    /\ received = 0
    /\ closeCount = NoSteps
    /\ neverReturned = NoSteps
    /\ errSteps = {}

\* The loop condition of line 354 is false at once: i = CurStep is not below
\* len(tr.steps), and handleTarget returns nil (452).
HandleTargetLoopEnd(t) ==
    /\ pc[t] = "loop"
    /\ ~(CurStepOf(t) < LenSteps)
    /\ pc' = [pc EXCEPT ![t] = "exit"]
    /\ UNCHANGED <<agentVars, run, resumeState, ctxVars, plan, tgs, stepVars, lastDecremented,
                   targetErr, notifier, chanVars, monVars, ret, readerVars,
                   shutdownVars>>

\* The deferred function (342-348) finds no step from lastDecremented + 1 on,
\* and handleTarget returns to the goroutine that called it (184).
HandleTargetExitNoSteps(t) ==
    /\ pc[t] = "exit"
    /\ ~(lastDecremented[t] + 1 < LenSteps)
    /\ pc' = [pc EXCEPT ![t] = "report"]
    /\ UNCHANGED <<agentVars, run, resumeState, ctxVars, plan, tgs, stepVars, lastDecremented,
                   targetErr, notifier, chanVars, monVars, ret, readerVars,
                   shutdownVars>>

\* make(chan error, len(targetStates)) (179): the capacity of targetErrors.
TargetErrorsCap == Cardinality(DOMAIN pc)

\* targetErrors <- targetErr (188): the send waits for room in the channel.
GoroutineReport(t) ==
    /\ pc[t] = "report"
    /\ Len(targetErrors) < TargetErrorsCap
    /\ targetErrors' = Append(targetErrors, targetErr[t])
    /\ pc' = [pc EXCEPT ![t] = "count"]
    /\ UNCHANGED <<agentVars, run, resumeState, ctxVars, plan, tgs, stepVars, lastDecremented,
                   targetErr, notifier, targetErrorsCount, targetErrorsClosed,
                   stepsErrorsCh, monVars, ret, readerVars, shutdownVars>>

\* A goroutine that closes targetErrors whenever it has counted down.
GoroutineCountCloseAlways(t) ==
    /\ pc[t] = "count"
    /\ targetErrorsCount' = targetErrorsCount - 1
    /\ targetErrorsClosed' = TRUE
    /\ pc' = [pc EXCEPT ![t] = "done"]
    /\ UNCHANGED <<agentVars, run, resumeState, ctxVars, plan, tgs, stepVars, lastDecremented,
                   targetErr, notifier, targetErrors, stepsErrorsCh, monVars, ret,
                   readerVars, shutdownVars>>

\* atomic.AddInt32(&targetErrorsCount, -1), and close(targetErrors) by the
\* goroutine that brings the count to zero (189-191).
GoroutineCount(t) ==
    /\ pc[t] = "count"
    /\ targetErrorsCount' = targetErrorsCount - 1
    /\ targetErrorsClosed' = (targetErrorsClosed \/ targetErrorsCount - 1 = 0)
    /\ pc' = [pc EXCEPT ![t] = "done"]
    /\ UNCHANGED <<agentVars, run, resumeState, ctxVars, plan, tgs, stepVars, lastDecremented,
                   targetErr, notifier, targetErrors, stepsErrorsCh, monVars, ret,
                   readerVars, shutdownVars>>

\* waitSteps (306-336) over no steps: no resume states and no error.
WaitNoSteps ==
    /\ monPc = "wait"
    /\ LenSteps = 0
    /\ stepResumeStates' = <<>>
    /\ runErr' = resultErr
    /\ monPc' = "examine"
    /\ UNCHANGED <<agentVars, run, resumeState, ctxVars, plan, tgs, stepVars, drvVars, chanVars,
                   resultErr, ret, readerVars, shutdownVars>>

\* The targets whose CurStep is not an index of tr.steps.
OutOfRange == {t \in Targets : ~(tgs[t].CurStep \in DOMAIN stepErr)}

\* The loop of lines 243-261 evaluates tr.steps[tgs.CurStep] for every target
\* (line 250); with an index that is out of range the Go runtime panics and
\* Run does not return.
RunExaminePanic ==
    /\ monPc = "examine"
    /\ OutOfRange # {}
    /\ monPc' = "panic"
    /\ UNCHANGED <<agentVars, run, resumeState, ctxVars, plan, tgs, stepVars, drvVars, chanVars,
                   resultErr, runErr, stepResumeStates, ret, readerVars,
                   shutdownVars>>

\* The caller's notifications while Run is running.
PauseRunning == monPc # "panic" /\ Pause
CancelRunning == monPc # "panic" /\ Cancel

\* One run of a test without steps.
NextEmptyPipeline ==
    \/ \E t \in Targets : HandleTargetLoopEnd(t)
    \/ \E t \in Targets : HandleTargetExitNoSteps(t)
    \/ \E t \in Targets : GoroutineReport(t)
    \/ \E t \in Targets : GoroutineCount(t)
    \/ MonitorTargetError
    \/ WaitNoSteps
    \/ RunExaminePanic
    \/ PauseRunning
    \/ CancelRunning

SpecEmptyPipeline == InitEmptyPipeline /\ [][NextEmptyPipeline]_vars

\* --------------------------------------------------- Run: any target list
\* The lists of targets Run is called with: any part of Targets, none included.
TargetLists == SUBSET Targets

\* The targets of the run: those a handler was spawned for (180-193).
Spawned == DOMAIN pc

\* Run was called without a resume state and with the targets of a list L, and
\* has spawned one handler per target (lines 100-193): the maps of the targets
\* have the targets of L as keys, and targetErrorsCount is their number.
InitTargetList ==
    /\ AgentIdle
    /\ run = 1
    /\ resumeState = EmptyBytes
    /\ paused = FALSE
    /\ cancelled = FALSE
    /\ plan \in {f \in [Targets -> 0..NumSteps] :
                   \A t \in Targets : t + 1 \in Targets => f[t] <= f[t + 1]}
    /\ \E L \in TargetLists :
          /\ tgs = [t \in L |-> [CurStep |-> 0, CurPhase |-> targetStepPhaseInit,
                                 Res |-> NoErr]]
          /\ leftTargets = [i \in Steps |-> Cardinality(L)]
          /\ pc = [t \in L |-> "loop"]
          /\ lastDecremented = [t \in L |-> -1]
          /\ targetErr = [t \in L |-> NoErr]
          /\ notifier = [t \in L |-> Null]
          /\ targetErrorsCount = Cardinality(L)
    /\ started = [i \in Steps |-> FALSE]
    /\ inputClosed = [i \in Steps |-> FALSE]
    /\ forceStopped = [i \in Steps |-> FALSE]
    /\ stepErr = [i \in Steps |-> NoErr]
    /\ stopped = [i \in Steps |-> FALSE]
    /\ inflight = [i \in Steps |-> {}]
    /\ awaiting = [i \in Steps |-> {}]
    /\ resumeTargets = [i \in Steps |-> {}]
    /\ initResumeState = [i \in Steps |-> NullBlob]
    /\ lastResumeState = [i \in Steps |-> NullBlob]
    /\ targetErrors = <<>>
    /\ targetErrorsClosed = FALSE
    /\ stepsErrorsCh = <<>>
    /\ monPc = "supervise"
    /\ resultErr = NoErr
    /\ runErr = NoErr
    /\ stepResumeStates = <<>>
    /\ ret = NoRet
    /\ answered = [i \in Steps |-> {}]
    /\ lostTargets = [i \in Steps |-> {}]
    /\ injected = [i \in Steps |-> [t \in Targets |-> 0]]
    /\ received = 0
    /\ closeCount = [i \in Steps |-> 0]
    /\ neverReturned = [i \in Steps |-> FALSE]
    /\ errSteps = {}

\* One run of the spawned handlers with steps that honour the worker
\* contract, which the caller leaves alone.
NextTargetList ==
    \/ \E t \in Spawned : HandleTargetLoop(t)
    \/ \E t \in Spawned : HandleTargetInject(t)
    \/ \E t \in Spawned : HandleTargetAwait(t)
    \/ \E t \in Spawned : HandleTargetNext(t)
    \/ \E t \in Spawned : HandleTargetExit(t)
    \/ \E i \in Steps, t \in Targets : StepResult(i, t)
    \/ \E i \in Steps : StepReturn(i)
    \/ MonitorTargetError
    \/ WaitSteps
    \/ RunReturn

SpecTargetList == InitTargetList /\ [][NextTargetList]_vars

\* The scheduler runs a goroutine that can run: a step is taken as long as
\* one is possible.
SpecTargetListFair == SpecTargetList /\ WF_vars(NextTargetList)

\* ------------------------------------------- the handler goroutines of Run
\* The deferred function of handleTarget (342-348) decrements every step not
\* yet decremented, and handleTarget returns to the goroutine that called it
\* (184).
HandleTargetDeferred(t) ==
    /\ pc[t] = "exit"
    /\ LET S == DeferredSteps(t) IN
       /\ leftTargets' = DecreasedLeftTargets(S)
       /\ inputClosed' = ClosedAfterDecrease(S)
       /\ closeCount' = CloseInput(ReachZero(S))
    /\ lastDecremented' = [lastDecremented EXCEPT ![t] = NumSteps - 1]
    /\ pc' = [pc EXCEPT ![t] = "report"]
    /\ UNCHANGED <<agentVars, run, resumeState, ctxVars, plan, tgs, started, forceStopped, stepErr,
                   stopped, inflight, awaiting, resumeTargets, initResumeState,
                   lastResumeState, targetErr, notifier, chanVars, monVars, ret,
                   readerVars, neverReturned, errSteps>>

\* One run of any list of targets, the goroutine around handleTarget taken
\* statement by statement (183-192), with a caller that may pause and cancel.
NextDrivers ==
    \/ \E t \in Spawned : HandleTargetLoop(t)
    \/ \E t \in Spawned : HandleTargetInject(t)
    \/ \E t \in Spawned : HandleTargetAwait(t)
    \/ \E t \in Spawned : HandleTargetNext(t)
    \/ \E t \in Spawned : HandleTargetDeferred(t)
    \/ \E t \in Spawned : GoroutineReport(t)
    \/ \E t \in Spawned : GoroutineCount(t)
    \/ GoodSteps
    \/ Monitor
    \/ Pause
    \/ Cancel

SpecDrivers == InitTargetList /\ [][NextDrivers]_vars

\* ------------------------------------------------ handleTarget and tr.mu
\* handleTarget step by step, with the sections it runs under tr.mu as
\* positions of their own: a handler at one of them holds the mutex.
\* The positions between Lock and Unlock, with the select of 410-428 included.
LockedPcsThroughAwait == {"switch", "setrun", "decrease", "await", "setres", "advance"}

\* The positions between tr.mu.Lock() and tr.mu.Unlock(): 365-385, 397-402,
\* 414-419 and 440-450.
LockedPcs == {"switch", "setrun", "setres", "advance"}

\* tr.mu is not held: no handler is inside a locked section (Run takes it at
\* 239 and keeps it until it returns).
MuFree == \A u \in Targets : pc[u] \notin LockedPcs

\* Loop condition and early check (354-364), then tr.mu.Lock() (365).
MuLoop(t) ==
    /\ pc[t] = "loop"
    /\ IF CurStepOf(t) >= NumSteps \/ paused \/ cancelled
       THEN pc' = [pc EXCEPT ![t] = "exit"]
       ELSE MuFree /\ pc' = [pc EXCEPT ![t] = "switch"]
    /\ UNCHANGED <<agentVars, run, resumeState, ctxVars, plan, tgs, stepVars, lastDecremented,
                   targetErr, notifier, chanVars, monVars, ret, readerVars,
                   shutdownVars>>

\* ss := tr.steps[i], the phase switch and tr.mu.Unlock() (366-385).
MuSwitch(t) ==
    /\ pc[t] = "switch"
    /\ LET ph == tgs[t].CurPhase IN
       IF ph = targetStepPhaseEnd
       THEN /\ pc' = [pc EXCEPT ![t] = "exit"]
            /\ UNCHANGED <<tgs, targetErr>>
       ELSE IF ph \in {targetStepPhaseInit, targetStepPhaseBegin, targetStepPhaseRun}
       THEN /\ tgs' = [tgs EXCEPT ![t].CurPhase = PhaseAfterSwitch(ph)]
            /\ pc' = [pc EXCEPT ![t] = "run"]
            /\ UNCHANGED targetErr
       ELSE /\ targetErr' = [targetErr EXCEPT ![t] = ErrInvalidPhase]
            /\ pc' = [pc EXCEPT ![t] = "exit"]
            /\ UNCHANGED tgs
    /\ UNCHANGED <<agentVars, run, resumeState, ctxVars, plan, stepVars, lastDecremented,
                   notifier, chanVars, monVars, ret, readerVars, shutdownVars>>

\* ss.Run (387).
MuRun(t) ==
    /\ pc[t] = "run"
    /\ LET i == CurStepOf(t) IN
       /\ started' = StartedAfterRun(i)
       /\ inflight' = InflightAfterRun(i)
       /\ awaiting' = AwaitingAfterRun(i)
    /\ pc' = [pc EXCEPT ![t] = "inject"]
    /\ UNCHANGED <<agentVars, run, resumeState, ctxVars, plan, tgs, inputClosed, forceStopped,
                   leftTargets, stepErr, stopped, resumeTargets, initResumeState,
                   lastResumeState, lastDecremented, targetErr, notifier, chanVars,
                   monVars, ret, readerVars, shutdownVars>>

\* ss.InjectTarget (389-394); when it fails, DecreaseLeftTargets (405-406)
\* and the return of 429-438.
MuInject(t) ==
    /\ pc[t] = "inject"
    /\ LET i == CurStepOf(t) IN
       \/ /\ t \in resumeTargets[i]
          /\ pc' = [pc EXCEPT ![t] = "lockrun"]
          /\ UNCHANGED <<inflight, awaiting, notifier, targetErr, injected,
                         leftTargets, inputClosed, closeCount, lastDecremented>>
       \/ /\ t \notin resumeTargets[i]
          /\ CanReceive(i)
          /\ inflight' = [inflight EXCEPT ![i] = @ \cup {t}]
          /\ awaiting' = [awaiting EXCEPT ![i] = @ \cup {t}]
          /\ injected' = [injected EXCEPT ![i][t] = @ + 1]
          /\ notifier' = [notifier EXCEPT ![t] = Null]
          /\ pc' = [pc EXCEPT ![t] = "lockrun"]
          /\ UNCHANGED <<targetErr, leftTargets, inputClosed, closeCount,
                         lastDecremented>>
       \/ /\ t \notin resumeTargets[i]
          /\ \E e \in InjectErrors(i) : targetErr' = [targetErr EXCEPT ![t] = e]
          /\ leftTargets' = DecreasedLeftTargets({i})
          /\ inputClosed' = ClosedAfterDecrease({i})
          /\ closeCount' = CloseInput(ReachZero({i}))
          /\ lastDecremented' = [lastDecremented EXCEPT ![t] = i]
          /\ pc' = [pc EXCEPT ![t] = "exit"]
          /\ UNCHANGED <<inflight, awaiting, notifier, injected>>
    /\ UNCHANGED <<agentVars, run, resumeState, ctxVars, plan, tgs, started, forceStopped, stepErr,
                   stopped, resumeTargets, initResumeState, lastResumeState, chanVars,
                   monVars, ret, answered, lostTargets, received, neverReturned,
                   errSteps>>

\* tr.mu.Lock() of 397, 414 and 440: the handler waits until the mutex is free.
MuLock(t) ==
    /\ pc[t] \in {"lockrun", "lockres", "locknext"}
    /\ MuFree
    /\ pc' = [pc EXCEPT ![t] = CASE pc[t] = "lockrun" -> "setrun"
                                  [] pc[t] = "lockres" -> "setres"
                                  [] pc[t] = "locknext" -> "advance"]
    /\ UNCHANGED <<agentVars, run, resumeState, ctxVars, plan, tgs, stepVars, lastDecremented,
                   targetErr, notifier, chanVars, monVars, ret, readerVars,
                   shutdownVars>>

\* The begin -> run transition and tr.mu.Unlock() (398-402).
MuSetRun(t) ==
    /\ pc[t] = "setrun"
    /\ tgs' = [tgs EXCEPT ![t].CurPhase = PhaseAfterInject(@)]
    /\ pc' = [pc EXCEPT ![t] = "decrease"]
    /\ UNCHANGED <<agentVars, run, resumeState, ctxVars, plan, stepVars, lastDecremented,
                   targetErr, notifier, chanVars, monVars, ret, readerVars,
                   shutdownVars>>

\* DecreaseLeftTargets after the injection (405-406).
MuDecrease(t) ==
    /\ pc[t] = "decrease"
    /\ LET i == CurStepOf(t) IN
       /\ leftTargets' = DecreasedLeftTargets({i})
       /\ inputClosed' = ClosedAfterDecrease({i})
       /\ closeCount' = CloseInput(ReachZero({i}))
       /\ lastDecremented' = [lastDecremented EXCEPT ![t] = i]
    /\ pc' = [pc EXCEPT ![t] = "await"]
    /\ UNCHANGED <<agentVars, run, resumeState, ctxVars, plan, tgs, started, forceStopped, stepErr,
                   stopped, inflight, awaiting, resumeTargets, initResumeState,
                   lastResumeState, targetErr, notifier, chanVars, monVars, ret,
                   readerVars, neverReturned, errSteps>>

\* The select of 410-428: the result is received (412), or the step has
\* stopped (421-423), or the context is done (424-426).
MuAwait(t) ==
    /\ pc[t] = "await"
    /\ \/ /\ notifier[t] # Null
          /\ pc' = [pc EXCEPT ![t] = "lockres"]
          /\ UNCHANGED targetErr
       \/ /\ stopped[CurStepOf(t)]
          /\ targetErr' = [targetErr EXCEPT ![t] = stepErr[CurStepOf(t)]]
          /\ pc' = [pc EXCEPT ![t] = IF stepErr[CurStepOf(t)] # NoErr THEN "exit"
                                      ELSE "locknext"]
       \/ /\ cancelled
          /\ targetErr' = [targetErr EXCEPT ![t] = ErrCanceled]
          /\ pc' = [pc EXCEPT ![t] = "exit"]
    /\ UNCHANGED <<agentVars, run, resumeState, ctxVars, plan, tgs, stepVars, lastDecremented,
                   notifier, chanVars, monVars, ret, readerVars, shutdownVars>>

\* The result is stored, the phase becomes end, tr.mu.Unlock() (415-419).
MuSetRes(t) ==
    /\ pc[t] = "setres"
    /\ tgs' = [tgs EXCEPT ![t].Res = IF notifier[t] # NoErr THEN notifier[t] ELSE @,
                          ![t].CurPhase = targetStepPhaseEnd]
    /\ notifier' = [notifier EXCEPT ![t] = Null]
    /\ pc' = [pc EXCEPT ![t] = "locknext"]
    /\ UNCHANGED <<agentVars, run, resumeState, ctxVars, plan, stepVars, lastDecremented,
                   targetErr, chanVars, monVars, ret, readerVars, shutdownVars>>

\* End of an iteration under the mutex (441-450).
MuAdvance(t) ==
    /\ pc[t] = "advance"
    /\ LET i == CurStepOf(t) IN
       IF tgs[t].Res # NoErr
       THEN /\ pc' = [pc EXCEPT ![t] = "exit"]
            /\ UNCHANGED tgs
       ELSE IF i + 1 < NumSteps
       THEN /\ tgs' = [tgs EXCEPT ![t].CurStep = i + 1,
                                  ![t].CurPhase = targetStepPhaseInit]
            /\ pc' = [pc EXCEPT ![t] = "loop"]
       ELSE /\ pc' = [pc EXCEPT ![t] = "exit"]
            /\ UNCHANGED tgs
    /\ UNCHANGED <<agentVars, run, resumeState, ctxVars, plan, stepVars, lastDecremented,
                   targetErr, notifier, chanVars, monVars, ret, readerVars,
                   shutdownVars>>

\* Any step of the handler of target t.
MuHandler(t) ==
    \/ MuLoop(t)
    \/ MuSwitch(t)
    \/ MuRun(t)
    \/ MuInject(t)
    \/ MuLock(t)
    \/ MuSetRun(t)
    \/ MuDecrease(t)
    \/ MuAwait(t)
    \/ MuSetRes(t)
    \/ MuAdvance(t)
    \/ HandleTargetExit(t)

\* Run takes tr.mu (239), examines the state and returns (237-303).
MuRunReturn == MuFree /\ RunReturn

\* One run from scratch with every Lock and Unlock of handleTarget a step of
\* its own; the caller may cancel.
NextMutex ==
    \/ \E t \in Targets : MuLoop(t)
    \/ \E t \in Targets : MuSwitch(t)
    \/ \E t \in Targets : MuRun(t)
    \/ \E t \in Targets : MuInject(t)
    \/ \E t \in Targets : MuLock(t)
    \/ \E t \in Targets : MuSetRun(t)
    \/ \E t \in Targets : MuDecrease(t)
    \/ \E t \in Targets : MuAwait(t)
    \/ \E t \in Targets : MuSetRes(t)
    \/ \E t \in Targets : MuAdvance(t)
    \/ \E t \in Targets : HandleTargetExit(t)
    \/ \E i \in Steps, t \in Targets : StepResult(i, t)
    \/ \E i \in Steps : StepReturn(i)
    \/ \E i \in Steps : StepCancel(i)
    \/ MonitorTargetError
    \/ MonitorStepError
    \/ WaitSteps
    \/ MuRunReturn
    \/ Cancel

SpecMutex == Init /\ [][NextMutex]_vars

\* ------------------------------------------------------ exec_agent: start
\* The ways the child can end by itself, and the error cmd.Wait returns then.
ExitedStates == {"exited 0", "exited 1"}
ErrExitStatus == "exit status 1"
ErrKilled == "signal: killed"
ErrStartFailed == "failed to start process"
ErrSignalCaught == "signal caught"
ErrMonitorServer == "monitor server error"
ErrServerClosed == "server closed"
Signals == {"SIGINT", "SIGTERM"}

\* The error of cmd.Wait for a child that has ended (84).
WaitErr(c) ==
    CASE c = "exited 0" -> NoErr
      [] c = "exited 1" -> ErrExitStatus
      [] OTHER -> ErrKilled

\* No test runner in the process of exec_agent.
RunnerIdle ==
    /\ run = 0
    /\ resumeState = EmptyBytes
    /\ paused = FALSE
    /\ cancelled = FALSE
    /\ plan = <<>>
    /\ tgs = <<>>
    /\ started = <<>>
    /\ inputClosed = <<>>
    /\ forceStopped = <<>>
    /\ leftTargets = <<>>
    /\ stepErr = <<>>
    /\ stopped = <<>>
    /\ inflight = <<>>
    /\ awaiting = <<>>
    /\ resumeTargets = <<>>
    /\ initResumeState = <<>>
    /\ lastResumeState = <<>>
    /\ pc = <<>>
    /\ lastDecremented = <<>>
    /\ targetErr = <<>>
    /\ notifier = <<>>
    /\ targetErrors = <<>>
    /\ targetErrorsCount = 0
    /\ targetErrorsClosed = FALSE
    /\ stepsErrorsCh = <<>>
    /\ monPc = "idle"
    /\ resultErr = NoErr
    /\ runErr = NoErr
    /\ stepResumeStates = <<>>
    /\ ret = NoRet
    /\ answered = <<>>
    /\ lostTargets = <<>>
    /\ injected = <<>>
    /\ received = 0
    /\ closeCount = <<>>
    /\ neverReturned = <<>>
    /\ errSteps = {}

\* start is called (65).
InitAgent ==
    /\ RunnerIdle
    /\ startPc = "start"
    /\ child = "none"
    /\ ProcessState = NilProcessState
    /\ waiterPc = "idle"
    /\ done = FALSE
    /\ cmdErr = <<>>
    /\ monErr = <<>>
    /\ sigs = <<>>
    /\ mon = "none"
    /\ startRet = NoStartRet

\* cmd.Start fails (73-75).
CmdStartFail ==
    /\ startPc = "start"
    /\ startPc' = "returned"
    /\ startRet' = [path |-> "start", err |-> ErrStartFailed]
    /\ UNCHANGED <<runnerVars, child, ProcessState, waiterPc, done, cmdErr, monErr,
                   sigs, mon>>

\* cmd.Start succeeds; start spawns the goroutine that waits for the child,
\* starts the monitor server and registers for the signals (66-101).
CmdStart ==
    /\ startPc = "start"
    /\ child' = "running"
    /\ waiterPc' = "wait"
    /\ mon' = "serving"
    /\ startPc' = "select"
    /\ UNCHANGED <<runnerVars, ProcessState, done, cmdErr, monErr, sigs, startRet>>

\* The child ends by itself.
ChildExit ==
    /\ child = "running"
    /\ child' \in ExitedStates
    /\ UNCHANGED <<runnerVars, startPc, ProcessState, waiterPc, done, cmdErr, monErr,
                   sigs, mon, startRet>>

\* err := cmd.Wait() (84): returns once the child has ended, and sets
\* cmd.ProcessState.
WaiterWait ==
    /\ waiterPc = "wait"
    /\ child # "running"
    /\ ProcessState' = [exited |-> TRUE, err |-> WaitErr(child)]
    /\ waiterPc' = "recv"
    /\ UNCHANGED <<runnerVars, startPc, child, done, cmdErr, monErr, sigs, mon,
                   startRet>>

\* The goroutine going on without the done signal of the monitor.
WaiterSkipDone ==
    /\ waiterPc = "recv"
    /\ waiterPc' = "send"
    /\ UNCHANGED <<runnerVars, startPc, child, ProcessState, done, cmdErr, monErr, sigs,
                   mon, startRet>>

\* <-done (87)
WaiterRecvDone ==
    /\ waiterPc = "recv"
    /\ done
    /\ waiterPc' = "send"
    /\ UNCHANGED <<runnerVars, startPc, child, ProcessState, done, cmdErr, monErr, sigs,
                   mon, startRet>>

\* cmdErr <- err (88)
WaiterSend ==
    /\ waiterPc = "send"
    /\ Len(cmdErr) < 1
    /\ cmdErr' = Append(cmdErr, ProcessState.err)
    /\ waiterPc' = "end"
    /\ UNCHANGED <<runnerVars, startPc, child, ProcessState, done, monErr, sigs, mon,
                   startRet>>

\* The monitor server, told by its client that the output was fetched,
\* signals done.
MonitorDone ==
    /\ mon = "serving"
    /\ ~done
    /\ done' = TRUE
    /\ UNCHANGED <<runnerVars, startPc, child, ProcessState, waiterPc, cmdErr, monErr,
                   sigs, mon, startRet>>

\* mon.Serve() fails, and the goroutine of lines 94-96 reports its error.
MonitorFail ==
    /\ mon = "serving"
    /\ mon' = "failed"
    /\ monErr' = Append(monErr, ErrMonitorServer)
    /\ UNCHANGED <<runnerVars, startPc, child, ProcessState, waiterPc, done, cmdErr,
                   sigs, startRet>>

\* mon.Serve() returns after mon.Shutdown(), and the goroutine of lines 94-96
\* reports what it returned.
MonitorServeReturn ==
    /\ mon = "shutdown"
    /\ monErr = <<>>
    /\ mon' = "stopped"
    /\ monErr' = Append(monErr, ErrServerClosed)
    /\ UNCHANGED <<runnerVars, startPc, child, ProcessState, waiterPc, done, cmdErr,
                   sigs, startRet>>

\* A termination signal arrives (101): signal.Notify does not block, a signal
\* that finds the channel full is dropped.
SignalArrives ==
    /\ startPc \notin {"start", "returned"}
    /\ sigs = <<>>
    /\ \E sig \in Signals : sigs' = Append(sigs, sig)
    /\ UNCHANGED <<runnerVars, startPc, child, ProcessState, waiterPc, done, cmdErr,
                   monErr, mon, startRet>>

\* mon.Shutdown() (106, 112): the server serves no more.
Shutdown(m) == IF m = "stopped" THEN m ELSE "shutdown"

\* case err := <-cmdErr (105-109)
SelectCmdErr ==
    /\ startPc = "select"
    /\ cmdErr # <<>>
    /\ cmdErr' = Tail(cmdErr)
    /\ mon' = Shutdown(mon)
    /\ startRet' = [path |-> "cmdErr", err |-> Head(cmdErr)]
    /\ startPc' = "returned"
    /\ UNCHANGED <<runnerVars, child, ProcessState, waiterPc, done, monErr, sigs>>

\* case sig := <-sigs (111-114)
SelectSig ==
    /\ startPc = "select"
    /\ sigs # <<>>
    /\ sigs' = Tail(sigs)
    /\ mon' = Shutdown(mon)
    /\ startRet' = [path |-> "none", err |-> ErrSignalCaught]
    /\ startPc' = "sigs"
    /\ UNCHANGED <<runnerVars, child, ProcessState, waiterPc, done, cmdErr, monErr>>

\* case err := <-monErr (122)
SelectMonErr ==
    /\ startPc = "select"
    /\ monErr # <<>>
    /\ monErr' = Tail(monErr)
    /\ startRet' = [path |-> "none", err |-> Head(monErr)]
    /\ startPc' = "monErr"
    /\ UNCHANGED <<runnerVars, child, ProcessState, waiterPc, done, cmdErr, sigs, mon>>

\* What start reads in cmd.ProcessState (115, 123): the goroutine of line 84
\* writes it without synchronisation, so a value that was written may or may
\* not be seen.
SeenProcessState == {NilProcessState, ProcessState}

\* cmd.Process.Kill(): ends a child that runs, fails on one that has ended.
Kill(c) == IF c = "running" THEN "killed" ELSE c

\* if cmd.ProcessState == nil { cmd.Process.Kill() }, and the return of the
\* error (115-120, 123-128).
KillIfRunning ==
    /\ startPc \in {"sigs", "monErr"}
    /\ \E seen \in SeenProcessState :
          child' = IF seen = NilProcessState THEN Kill(child) ELSE child
    /\ startRet' = [startRet EXCEPT !.path = startPc]
    /\ startPc' = "returned"
    /\ UNCHANGED <<runnerVars, ProcessState, waiterPc, done, cmdErr, monErr, sigs,
                   mon>>

\* One call of start, with its child, its monitor server and the signals.
NextAgent ==
    \/ CmdStartFail
    \/ CmdStart
    \/ ChildExit
    \/ WaiterWait
    \/ WaiterRecvDone
    \/ WaiterSend
    \/ MonitorDone
    \/ MonitorFail
    \/ MonitorServeReturn
    \/ SignalArrives
    \/ SelectCmdErr
    \/ SelectSig
    \/ SelectMonErr
    \/ KillIfRunning

SpecAgent == InitAgent /\ [][NextAgent]_vars

\* ================================================================ claims
Failed(t) == tgs[t].Res # NoErr

\* The successor of a phase in the order init -> begin -> run -> end.
PhaseSucc(ph) ==
    CASE ph = targetStepPhaseInit -> targetStepPhaseBegin
      [] ph = targetStepPhaseBegin -> targetStepPhaseRun
      [] ph = targetStepPhaseRun -> targetStepPhaseEnd
      [] OTHER -> targetStepPhaseInvalid

\* A legal move of (CurStep, CurPhase) from a to b.
PhaseAdvance(a, b) ==
    \/ a.CurStep = b.CurStep /\ a.CurPhase = b.CurPhase
    \/ a.CurStep = b.CurStep /\ b.CurPhase = PhaseSucc(a.CurPhase)
    \/ /\ b.CurStep = a.CurStep + 1
       /\ a.CurPhase = targetStepPhaseEnd
       /\ b.CurPhase = targetStepPhaseInit

\* C1: in every step of every behaviour, each target's (CurStep, CurPhase)
\* stays put, moves to the next phase of the same step, or moves from end at
\* step i to init at step i+1.
C1_PhaseOrder == [][\A t \in Targets : PhaseAdvance(tgs[t], tgs'[t])]_vars

\* C2: a target's CurStep changes only when the target is in phase end with no
\* Res (its handler received a result without error), and a handler that
\* took the step-stopped case leaves CurStep and CurPhase as they were.
C2_AdvanceOnlyAfterResult ==
    [][\A t \in Targets :
         /\ tgs'[t].CurStep # tgs[t].CurStep =>
               tgs[t].CurPhase = targetStepPhaseEnd /\ ~Failed(t)
         /\ (pc[t] = "next" /\ tgs[t].CurPhase # targetStepPhaseEnd) =>
               tgs'[t] = tgs[t]]_vars

\* C3: a target that its step failed never gets past that step: it is at no
\* later step and no later step holds it, and once its handler is done it has
\* Res set in phase end.
C3_FailedTargetStops ==
    \A t \in Targets :
        /\ tgs[t].CurStep <= plan[t]
        /\ \A i \in Steps : t \in inflight[i] \cup awaiting[i] => i <= plan[t]

\* The entry the results map must have for target t, per the claim.
Terminated(t) ==
    tgs[t].CurStep = NumSteps - 1 /\ tgs[t].CurPhase = targetStepPhaseEnd

ResultsMatch ==
    /\ DOMAIN ret.results \subseteq Targets
    /\ Cardinality(DOMAIN ret.results) <= NumTargets
    /\ \A t \in Targets :
          IF Failed(t)
          THEN t \in DOMAIN ret.results /\ ret.results[t] = tgs[t].Res
          ELSE IF Terminated(t)
          THEN t \in DOMAIN ret.results /\ ret.results[t] = NoErr
          ELSE t \notin DOMAIN ret.results

\* C4 (as claimed): whenever Run has returned, the results map holds Res for a
\* target with Res, nil for a target that ended the last step in phase end, and
\* nothing otherwise.
C4_ResultsMapAlways == ret.done => ResultsMatch

\* C4 (amended): that is so when Run returns nil or Paused; with any other run
\* error the results map is nil.
C4_ResultsMap ==
    ret.done => IF ret.err \in {NoErr, ErrPaused} THEN ResultsMatch
                ELSE DOMAIN ret.results = {}

C4_Witness ==
    /\ ret.done /\ ret.err = NoErr
    /\ \E t \in Targets : Failed(t) /\ t \in DOMAIN ret.results
    /\ \E t \in Targets : ~Failed(t) /\ Terminated(t) /\ t \in DOMAIN ret.results

\* C5: when Run has returned nil, no target is in phase run and every target
\* has Res set or ended the last step in phase end.
C5_NilMeansAllTerminated ==
    (ret.done /\ ret.err = NoErr) =>
        \A t \in Targets : /\ tgs[t].CurPhase # targetStepPhaseRun
                           /\ Failed(t) \/ Terminated(t)

\* The resumability conditions of the claims: every target in phase run is at
\* a step whose error is Paused, and no step holds an error other than Paused.
Resumable ==
    /\ \A t \in Targets : tgs[t].CurPhase = targetStepPhaseRun =>
                             stepErr[tgs[t].CurStep] = ErrPaused
    /\ \A i \in Steps : stepErr[i] \in {NoErr, ErrPaused}

\* C6: when Run has returned a non-empty snapshot, it has returned Paused from
\* a resumable state; a run that returned nil returned an empty snapshot.
C6_SnapshotOnlyWhenPaused ==
    (ret.done /\ ret.snapshot.ok) => (ret.err = ErrPaused /\ Resumable)

\* C7: when Run has returned from a paused context with no fatal error and a
\* state that is not resumable, it has returned Paused and an empty snapshot.
C7_PausedNotResumable ==
    (ret.done /\ paused /\ ~cancelled /\ runErr = NoErr /\ ~Resumable) =>
        (ret.err = ErrPaused /\ ~ret.snapshot.ok)

\* C8: when Run has returned Paused it has returned a snapshot and the state is
\* resumable; when the state is not resumable it has not returned Paused and
\* has serialised nothing: the bytes it returned are empty or the ones it was
\* started with.
C8_PausedOnlyIfResumable ==
    /\ (ret.done /\ ret.err = ErrPaused) => (ret.snapshot.ok /\ Resumable)
    /\ (ret.done /\ ~Resumable) =>
          /\ ret.err # ErrPaused
          /\ ret.snapshot \in {EmptyBytes, resumeState}

C8_Witness ==
    /\ ret.done /\ ret.err = ErrPaused /\ ret.snapshot.ok
    /\ \E t \in Targets : tgs[t].CurPhase = targetStepPhaseRun

\* The outcome a target has, and the one an uninterrupted run of the plan gives.
Outcome(t) == IF t \in DOMAIN ret.results THEN ret.results[t] ELSE "absent"
Expected(t) == IF plan[t] < NumSteps THEN ErrTargetFailed ELSE NoErr

\* C9: a run resumed from the snapshot of a paused run and not paused again
\* returns nil, and every target has the outcome of the uninterrupted run.
C9_ResumeEquivalent ==
    (run > 1 /\ ret.done /\ ~paused) =>
        /\ ret.err = NoErr
        /\ \A t \in Targets : Outcome(t) = Expected(t)

\* C10: when Run has returned from a cancelled context, it has returned
\* Canceled, an empty snapshot and no results.
C10_CanceledWins ==
    (ret.done /\ cancelled) =>
        /\ ret.err = ErrCanceled
        /\ ~ret.snapshot.ok
        /\ DOMAIN ret.results = {}

C10_Witness ==
    /\ ret.done /\ cancelled /\ paused
    /\ \E i \in Steps : stepErr[i] = ErrPaniced
    /\ \E t \in Targets : Failed(t)

\* The error the monitor takes from one of its two channels in this step, if any.
MonitorReceives(e) ==
    /\ monPc = "supervise"
    /\ \/ targetErrors # <<>> /\ targetErrors' = Tail(targetErrors)
             /\ e = Head(targetErrors)
       \/ stepsErrorsCh # <<>> /\ stepsErrorsCh' = Tail(stepsErrorsCh)
             /\ e = Head(stepsErrorsCh)

AllErrors ==
    {NoErr, ErrPaused, ErrCanceled, ErrPaniced, ErrLostTargets, ErrUnexpectedResult,
     ErrInvalidPhase, ErrDuplicateResult, ErrNeverReturned}

\* C11: the first error other than a pause that the monitor receives becomes
\* the recorded error and in that step every step is force-stopped; a recorded
\* error is never replaced, only an error the monitor received is recorded,
\* and unless the context is cancelled Run returns the recorded error.
C11_FirstFatalWins ==
    [][/\ resultErr # NoErr => resultErr' = resultErr
       /\ \A e \in AllErrors \ {NoErr, ErrPaused} :
             (MonitorReceives(e) /\ resultErr = NoErr) =>
                 /\ resultErr' = e
                 /\ \A i \in Steps : forceStopped'[i] /\ inputClosed'[i]
       /\ resultErr' # resultErr => MonitorReceives(resultErr')
       /\ (~ret.done /\ ret'.done /\ resultErr # NoErr /\ ~cancelled) =>
             ret'.err = resultErr]_vars

C11_Witness ==
    /\ ret.done /\ ~cancelled /\ paused
    /\ resultErr = ErrPaniced /\ ret.err = ErrPaniced
    /\ \E i \in Steps : stepErr[i] = ErrCanceled
    /\ \E t \in Targets : targetErr[t] = ErrCanceled

\* C12 (as claimed): once the monitor has recorded a fatal error, no handler
\* moves its target into phase begin, no step is started and no step receives
\* a target.
C12_DriversCancelledOnFatal ==
    [][resultErr # NoErr =>
         /\ \A t \in Targets :
               tgs'[t].CurPhase = targetStepPhaseBegin =>
                   tgs[t].CurPhase = targetStepPhaseBegin
         /\ started' = started
         /\ \A i \in Steps : awaiting'[i] \subseteq awaiting[i]]_vars

\* C12 (amended): once the monitor has recorded a fatal error, every step has
\* been force-stopped and its input closed; the handlers are not cancelled.
C12_StepsForceStoppedOnFatal ==
    resultErr # NoErr => \A i \in Steps : forceStopped[i] /\ inputClosed[i]

C12_Witness ==
    /\ resultErr = ErrPaniced /\ monPc = "supervise"
    /\ stepErr[0] = ErrPaniced /\ forceStopped[1]
    /\ \E t \in Targets : /\ pc[t] = "inject"
                           /\ tgs[t].CurStep = 1
                           /\ tgs[t].CurPhase = targetStepPhaseBegin

\* The resume inputs Run must refuse.
BadInput ==
    /\ resumeState.ok
    /\ \/ "garbage" \in DOMAIN resumeState
       \/ "V" \notin DOMAIN resumeState
       \/ resumeState.V # 2

\* Nothing of the pipeline exists: no target state, no step state, no handler.
NothingBuilt ==
    /\ \A t \in Targets : pc[t] = "idle" /\ tgs[t].CurPhase = targetStepPhaseInvalid
    /\ \A i \in Steps : ~started[i] /\ leftTargets[i] = 0 /\ resumeTargets[i] = {}
    /\ targetErrors = <<>> /\ targetErrorsCount = 0

\* C13: for malformed resume bytes Run returns 'invalid resume state', for
\* bytes whose version is not 2 or is missing 'incompatible resume state', in
\* both cases with a nil snapshot and nil results and with nothing of the
\* pipeline built; other inputs are not refused.
C13_ResumeStateValidated ==
    /\ BadInput => NothingBuilt
    /\ (BadInput /\ ret.done) =>
          /\ ret.err = IF "garbage" \in DOMAIN resumeState
                       THEN ErrInvalidResumeState ELSE ErrIncompatibleResumeState
          /\ ~ret.snapshot.ok
          /\ DOMAIN ret.results = {}
    /\ (~BadInput /\ ret.done) =>
          ret.err \notin {ErrInvalidResumeState, ErrIncompatibleResumeState}

C13_Witness ==
    /\ ret.done /\ ret.err = ErrIncompatibleResumeState
    /\ resumeState = WithoutVersion(SnapshotSecondStep)

\* The steps waitSteps labelled, and whether some other fatal error exists.
NeverReturnedSteps == {i \in Steps : neverReturned[i]}

OtherFatalRecorded ==
    \/ resultErr # NoErr
    \/ \E i \in Steps : stepErr[i] \notin {NoErr, ErrPaused, ErrNeverReturned}

\* Every labelled step was started, holds an error and is force-stopped, and
\* every started step that is not labelled had stopped when Run returned.
LabelledRight ==
    \A i \in Steps :
        /\ neverReturned[i] =>
              started[i] /\ forceStopped[i] /\ inputClosed[i] /\ stepErr[i] # NoErr
        /\ (started[i] /\ ~neverReturned[i]) => stopped[i]

\* C14 (as claimed): when Run has returned, the steps labelled NeverReturned
\* are the started steps that did not stop in time, they are force-stopped,
\* and unless another fatal error was recorded Run has returned NeverReturned
\* naming exactly those steps.
C14_NeverReturnedAlways ==
    ret.done =>
        /\ LabelledRight
        /\ (NeverReturnedSteps # {} /\ ~OtherFatalRecorded) =>
              ret.err = ErrNeverReturned /\ errSteps = NeverReturnedSteps

\* C14 (amended): that is so unless the context was cancelled; then Run has
\* returned Canceled.
C14_NeverReturned ==
    ret.done =>
        /\ LabelledRight
        /\ (NeverReturnedSteps # {} /\ ~OtherFatalRecorded) =>
              IF cancelled THEN ret.err = ErrCanceled
              ELSE ret.err = ErrNeverReturned /\ errSteps = NeverReturnedSteps

C14_Witness ==
    /\ ret.done /\ ret.err = ErrNeverReturned /\ ~cancelled
    /\ errSteps = {0} /\ neverReturned[0] /\ ~stopped[0]
    /\ ~started[1]

\* The step target t starts the run at.
StartStep(t) == SeedTargetStates(resumeState)[t].CurStep

\* The handler of target t calls Run on step i in this step.
CallsRun(t, i) == pc[t] = "loop" /\ pc'[t] = "inject" /\ tgs[t].CurStep = i

\* A started step was reached by some handler, a step that stopped was
\* started and stays stopped, and a launch happens when a handler calls Run
\* on a step that is not started, and never twice.
LaunchedRight ==
    \A i \in Steps :
        /\ started'[i] =>
              \E t \in Targets : StartStep(t) <= i /\ i <= tgs'[t].CurStep
        /\ stopped[i] => started[i] /\ stopped'[i]
        /\ started[i] => started'[i]
        /\ (~started[i] /\ started'[i]) =>
              (\E t \in Targets : CallsRun(t, i)) /\ ~stopped[i]
        /\ (started[i] /\ \E t \in Targets : CallsRun(t, i)) =>
              inflight'[i] = inflight[i] /\ awaiting'[i] = awaiting[i]

NotPassed(i) == {t \in Targets : StartStep(t) <= i /\ lastDecremented[t] < i}

\* C16: leftTargets[i] is the number of handlers that started at or before
\* step i and have not decremented it yet, so it starts as the number of
\* targets with CurStep <= i, no handler decrements a step twice or skips one,
\* it is never negative, and a handler that is done has decremented every step.
C16_LeftTargetsCounted ==
    monPc # "start" =>
        /\ \A i \in Steps : /\ leftTargets[i] = Cardinality(NotPassed(i))
                            /\ leftTargets[i] >= 0
        /\ \A t \in Targets :
              /\ lastDecremented[t] >= StartStep(t) - 1
              /\ pc[t] \in {"await", "next"} => lastDecremented[t] = tgs[t].CurStep
              /\ pc[t] = "done" => lastDecremented[t] = NumSteps - 1

C16_Witness ==
    /\ ret.done /\ resumeState = SnapshotObsolete
    /\ targetErr[1] = ErrInvalidPhase
    /\ \A i \in Steps : leftTargets[i] = 0
    /\ \A t \in Targets : pc[t] = "done"

ReaderErrors == {ErrUnexpectedResult, ErrDuplicateResult}

\* A result is dispatched only to a target awaiting one in the step, which
\* then no longer awaits: no injection is answered twice.
DispatchedToAwaiting ==
    \A i \in Steps : \A t \in answered'[i] \ answered[i] :
        t \in awaiting[i] /\ t \notin awaiting'[i]

\* An output that cannot be dispatched is not handed to any handler, and the
\* error the step records says what was wrong with it.
UndispatchedRecorded ==
    \A i \in Steps :
        (stepErr[i] = NoErr /\ stepErr'[i] \in ReaderErrors) =>
            /\ notifier' = notifier /\ answered' = answered /\ awaiting' = awaiting
            /\ stepErr'[i] = ErrDuplicateResult => answered[i] # {}
            /\ stepErr'[i] = ErrUnexpectedResult => awaiting[i] # Targets

\* Run returning the error of a step whose reader failed.
ReturnsReaderError ==
    ret.err \in ReaderErrors /\ \E i \in Steps : stepErr[i] = ret.err

LostSteps == {i \in Steps : stepErr[i] = ErrLostTargets}

\* A step that failed with LostTargets has returned, and its list is the
\* non-empty set of the targets injected into it that were given no result;
\* a step that returned without an error left no target without a result.
LostListed ==
    /\ \A i \in LostSteps :
          stopped[i] /\ lostTargets[i] # {} /\ lostTargets[i] = awaiting[i]
    /\ \A i \in Steps : (stopped[i] /\ stepErr[i] = NoErr) => awaiting[i] = {}

\* The lost targets stay in the step that lost them, in phase run, and their
\* handlers have exited with the step's error when Run returns.
LostNotAdvanced ==
    \A i \in LostSteps : \A t \in lostTargets[i] :
        /\ tgs[t].CurStep = i /\ tgs[t].CurPhase = targetStepPhaseRun
        /\ pc[t] \in {"exit", "done"} => targetErr[t] \in {ErrLostTargets, ErrCanceled}
        /\ ret.done => pc[t] = "done"

C20_NothingLeftRunning ==
    ret.done =>
        /\ \A t \in Targets : pc[t] = "done"
        /\ targetErrors = <<>> /\ targetErrorsClosed /\ targetErrorsCount = 0
        /\ \A i \in Steps : started[i] => stopped[i] \/ neverReturned[i]

C20_Witness ==
    /\ ret.done
    /\ \E i, j \in Steps : /\ started[i] /\ ~stopped[i] /\ neverReturned[i]
                            /\ started[j] /\ stopped[j] /\ ~neverReturned[j]
    /\ \E t \in Targets : targetErr[t] # NoErr

\* A handler that is inside the body of the loop over the steps.
InPipeline(t) == pc[t] \in {"inject", "await", "next"}

\* C21: CurStep of every target lies in [0, N] for a pipeline of N steps,
\* CurStep = N only for a target whose handler is not inside the pipeline,
\* and no use of CurStep as an index into the step array is out of range,
\* also for an empty pipeline with at least one target.
C21_CurStepIndexesSteps ==
    /\ \A t \in Targets : tgs[t].CurStep \in 0..LenSteps
    /\ \A t \in Targets : tgs[t].CurStep = LenSteps => ~InPipeline(t)
    /\ monPc # "panic"

\* The monitor has left its loop: waitSteps is running or has run.
ShutdownBegun == monPc \in {"wait", "examine", "returned"}

\* A run from scratch that the caller has not paused.
Undisturbed == run = 1 /\ ~paused

EarlyExitFrame(t) ==
    /\ tgs'[t] = tgs[t] /\ targetErr'[t] = targetErr[t]
    /\ started' = started /\ inflight' = inflight /\ awaiting' = awaiting

GivenResumeState(i) ==
    IF resumeState.ok /\ i + 1 \in DOMAIN resumeState.SRS
       /\ resumeState.SRS[i + 1] # JsonNull
    THEN resumeState.SRS[i + 1] ELSE NullBlob

\* C25: the resume states collected at the end of a run are one per step in
\* pipeline order: what the step returned if it was started, and otherwise
\* the resume state the input snapshot gave it; a snapshot written by a run
\* in which a step stayed unstarted carries that step's entry over unchanged.
C25_ResumeStatesPerStep ==
    /\ monPc \in {"examine", "returned"} =>
          /\ DOMAIN stepResumeStates = 1..NumSteps
          /\ \A i \in Steps :
                stepResumeStates[i + 1] =
                    IF started[i] THEN lastResumeState[i] ELSE GivenResumeState(i)
    /\ (ret.done /\ ret.snapshot.ok /\ ret.err = ErrPaused /\ resumeState.ok) =>
          \A i \in Steps : ~started[i] =>
              ret.snapshot.SRS[i + 1] = resumeState.SRS[i + 1]

C25_Witness ==
    /\ run = 2 /\ ret.done /\ ret.err = ErrPaused /\ ret.snapshot.ok
    /\ \E i, j \in Steps :
          /\ ~started[i] /\ GivenResumeState(i) # NullBlob
          /\ ret.snapshot.SRS[i + 1] = GivenResumeState(i)
          /\ started[j] /\ ret.snapshot.SRS[j + 1] = lastResumeState[j]

\* C26: a handler that holds tr.mu is never at a channel operation or a call
\* into a step, so its next step can always be taken and the mutex is given
\* back; at most one handler holds it; and when Run comes to take it no
\* handler holds it.  No state has a task waiting for a mutex that is not
\* going to be released.
C26_MutexNotHeldAcrossBlocking ==
    /\ Cardinality({t \in Targets : pc[t] \in LockedPcs}) <= 1
    /\ \A t \in Targets : pc[t] \in LockedPcs => ENABLED MuHandler(t)
    /\ monPc = "examine" => MuFree /\ ENABLED MuRunReturn

C26_Witness ==
    \E t, u \in Targets :
        /\ pc[t] = "setres"
        /\ pc[u] = "lockrun" /\ ~ENABLED MuHandler(u)
        /\ ~cancelled

PhaseSettled(ts) ==
    /\ ts.CurPhase \in {targetStepPhaseInit, targetStepPhaseBegin,
                        targetStepPhaseRun, targetStepPhaseEnd}
    /\ ts.CurPhase = targetStepPhaseEnd =>
          ts.Res # NoErr \/ ts.CurStep = NumSteps - 1

\* C28: once every handler has exited, and so in every snapshot Run
\* returns, the phase of each target is init, begin, run or end, and a
\* target in phase end has a result or is at the last step; no handler
\* takes the invalid-phase branch.
C28_PhasesSettled ==
    /\ (\A t \in Targets : pc[t] = "done") =>
          \A t \in Targets : PhaseSettled(tgs[t])
    /\ ret.snapshot.ok =>
          \A t \in Targets :
              /\ t \in DOMAIN ret.snapshot.T
              /\ PhaseSettled(UnmarshalTargetState(ret.snapshot.T[t]))
    /\ \A t \in Targets : targetErr[t] # ErrInvalidPhase

C28_Witness ==
    /\ ret.done /\ ret.snapshot.ok /\ ret.err = ErrPaused
    /\ \E t, u \in Targets :
          /\ tgs[t].CurPhase = targetStepPhaseEnd /\ tgs[t].Res = NoErr
          /\ tgs[t].CurStep = NumSteps - 1
          /\ tgs[u].CurPhase = targetStepPhaseBegin

\* C29: for every list of targets, the empty one included, and steps that
\* honour the worker contract, the completion channel is closed in the end,
\* the monitor leaves its loop and Run returns.
C29_RunReturns == <>(targetErrorsClosed /\ ret.done)

\* The handler goroutines that have sent their value on targetErrors.
HasReported == {t \in Spawned : pc[t] \in {"count", "done"}}

\* C30: every handler goroutine sends one value on targetErrors and its send
\* finds room and an open channel; the channel is closed once, by the
\* goroutine that finishes last, after every send; and the monitor has
\* received one value per goroutine when it sees the channel closed.
C30_CompletionChannel ==
    /\ [](/\ \A t \in Spawned :
               pc[t] = "report" => /\ Len(targetErrors) < Cardinality(Spawned)
                                   /\ ~targetErrorsClosed
          /\ Len(targetErrors) + received = Cardinality(HasReported)
          /\ targetErrorsCount = Cardinality({t \in Spawned : pc[t] # "done"})
          /\ targetErrorsClosed => Spawned # {} /\ \A t \in Spawned : pc[t] = "done"
          /\ monPc # "supervise" => /\ targetErrorsClosed
                                    /\ received = Cardinality(Spawned))
    /\ [][targetErrorsCount' # targetErrorsCount
            => /\ targetErrorsCount' = targetErrorsCount - 1
               /\ ~targetErrorsClosed
               /\ targetErrorsClosed' <=> targetErrorsCount' = 0]_vars

C30_Witness ==
    /\ monPc = "wait"
    /\ received = NumTargets
    /\ \E t \in Spawned : targetErr[t] # NoErr

\* The started steps that recorded an error other than a pause.
FatalSteps == {i \in Steps : started[i] /\ stepErr[i] \notin {NoErr, ErrPaused}}

\* C31: when a started step has recorded an error that is not a pause, Run
\* returns an error that is neither nil nor a pause, whether or not the
\* monitor read the step's notification from stepsErrorsCh.
C31_FatalStepErrorReturned ==
    (ret.done /\ FatalSteps # {}) => ret.err \notin {NoErr, ErrPaused}

\* Run has returned while the notification of a fatal step error is still in
\* stepsErrorsCh and the monitor recorded no error.
C31_Witness ==
    /\ ret.done
    /\ FatalSteps # {}
    /\ resultErr = NoErr
    /\ ~cancelled
    /\ \E k \in DOMAIN stepsErrorsCh : stepsErrorsCh[k] \notin {NoErr, ErrPaused}

\* C32: start returns the exit status of the child only after the child has
\* ended and the done signal was received, with the monitor server shut down;
\* when it returns after a signal or an error of the monitor server, it
\* returns an error and the child does not run any more.
C32_StartReturns ==
    startPc = "returned" =>
        /\ startRet.path = "cmdErr" =>
                /\ child \notin {"none", "running"}
                /\ startRet.err = WaitErr(child)
                /\ done /\ waiterPc = "end"
                /\ mon \in {"shutdown", "stopped"}
        /\ startRet.path \in {"sigs", "monErr"} =>
                /\ child \notin {"none", "running"}
                /\ startRet.err # NoErr

\* start has returned after a signal, having killed the child that still ran.
C32_Witness ==
    /\ startPc = "returned"
    /\ startRet.path = "sigs"
    /\ child = "killed"

====
